---------------------------- MODULE Spec2Model ----------------------------
(***************************************************************************)
(* A model of the reverse tunnel (dreamreflex/ngp-mtls): the frame codec,  *)
(* the INIT configuration codec, the PQC handshake check of the control    *)
(* listener and dialer, and the server and client engines that multiplex   *)
(* external connections over one control channel.                          *)
(*                                                                         *)
(* One module holds several specifications over the same variables:       *)
(*   SpecCodec       EncodeFrame / DecodeFrame on bounded inputs           *)
(*   SpecWire        tasks writing frames to one control connection        *)
(*   SpecInitConfig  EncodeInitConfig / DecodeInitConfig on bounded inputs *)
(*   SpecPQC         the control accept loop behind PQCListener.Accept     *)
(*   Spec            the tunnel engines (server, client, streams)          *)
(***************************************************************************)
EXTENDS Integers, Sequences, FiniteSets, TLC

VARIABLES
    codec,      \* the frame codec under test: stage, input, wire bytes, output
    icfg,       \* the INIT configuration codec under test
    \* ---- control plane (server process, control connections) ----
    useTLS,     \* Server.useTLS: the control listener is a PQCListener
    srvUp,      \* the server process runs and its control listener is bound
    nStarts,    \* how many times a server process has been started
    ctl,        \* control connections: both ends, TLS session, handshake peer
    nCtl,       \* control connections created so far
    backlog,    \* connections waiting in the control listener's accept queue
    srvAcc,     \* the control accept loop of Server.Run: pc, connection, call
    clients,    \* Server.clients: the registered sessions
    nextClientID,   \* Server.nextClientID
    dialer,     \* a PQCDialer.Dial call: stage, peer, call, result
    \* ---- sessions on the server (ClientInfo) ----
    info,       \* ClientInfo.ID, LocalAddr, RemotePort of each session
    NextConnID, \* ClientInfo.NextConnID
    ConnMap,    \* ClientInfo.ConnMap: stream id -> external socket (0: absent)
    PublicListener, \* ClientInfo.PublicListener: "nil", "open", "closed"
    srvRd,      \* the frame reader task of each session (handleFramesFromClient)
    acc,        \* the public acceptor task of each session's listener
    c2s,        \* frames written by the client, not yet read by the server
    s2c,        \* frames written by the server, not yet handled by the client's
                \* main loop (on the wire, or read into frameChan already)
    \* ---- streams ----
    nExt,       \* external connections accepted so far
    ext,        \* external sockets: owner session, stream id, both ends, reader task, bytes
    nLoc,       \* NEW_CONN frames the client has handled so far
    loc,        \* local sockets (one per handled NEW_CONN): ends, forwarder task, bytes
    \* ---- client ----
    cli,        \* Client.Run: pc and Client.controlConn
    connMap,    \* Client.connMap: stream id -> local socket (0: absent)
    \* ---- one control connection, byte by byte ----
    wire,       \* the bytes written to it, its write lock, the tasks writing frames
    \* ---- the server process as a whole ----
    run,        \* Server.Run: ctx, its position, clientsMu, the listeners it owns,
                \* and the acceptor task of the global public listener
    \* ---- stream ids in full 32-bit width ----
    ids,        \* per session: ClientInfo.NextConnID, the ids handed out, the keys of ConnMap
    \* ---- the TLS layer (package pqctls) ----
    sslctx,     \* one construction of a TLS context for a listener or a dialer
    pconn       \* one PQCConn: its session handle, its mutex, the tasks calling it

codecVars == <<codec>>
icfgVars  == <<icfg>>
ctlVars   == <<useTLS, srvUp, nStarts, ctl, nCtl, backlog, srvAcc, clients, nextClientID>>
pqcVars   == <<dialer>>
wireVars  == <<wire>>
runVars   == <<run>>
idsVars   == <<ids>>
tlsVars   == <<sslctx, pconn>>
sessVars  == <<info, NextConnID, ConnMap, PublicListener, srvRd, acc>>
chanVars  == <<c2s, s2c>>
strmVars  == <<nExt, ext, nLoc, loc>>
cliVars   == <<cli, connMap>>
tunnelVars == <<useTLS, srvUp, nStarts, ctl, nCtl, backlog, srvAcc, clients, nextClientID,
                info, NextConnID, ConnMap, PublicListener, srvRd, acc, c2s, s2c,
                nExt, ext, nLoc, loc, cli, connMap>>
vars == <<codec, icfg, dialer, wire, run, ids, sslctx, pconn, useTLS, srvUp, nStarts, ctl, nCtl, backlog, srvAcc, clients,
          nextClientID, info, NextConnID, ConnMap, PublicListener, srvRd, acc, c2s, s2c,
          nExt, ext, nLoc, loc, cli, connMap>>

(***************************************************************************)
(* Bounds of the model (not program constants).                            *)
(***************************************************************************)
MaxPayload == 2     \* longest frame payload the codec is run on
MaxRest    == 1     \* bytes that follow the frame in the reader
MaxAddr    == 3     \* longest local_addr the INIT codec is run on
MaxRaw     == 4     \* longest raw INIT payload the decoder is run on
MaxCtl     == 2     \* control connections (dials of the control address) per run
MaxWant    == 1     \* want-read / want-write rounds of one TLS handshake
MaxStarts  == 2     \* server processes started per run (the first and one restart)
MaxConns   == 2     \* external connections accepted per run
MaxChunks  == 1     \* chunks each end of a stream sends
MaxWriters == 3     \* tasks that write frames to one control connection
MaxWrites  == 1     \* frames each of them writes
MaxEvents  == 2     \* events of the environment per run: a user or the service closes
                    \* a connection, a local dial fails, a control path is cut, the
                    \* server process stops
MaxInits   == 2     \* INIT frames a remote end sends on one control connection
MaxAllocs  == 3     \* stream ids one session hands out in SpecIds
MaxTasks   == 3     \* tasks that call the methods of one PQCConn
MaxBuf     == 1     \* longest buffer passed to PQCConn.Read or Write
MaxEnds    == 1     \* remote ends that close, and shutdown requests, in one run

(***************************************************************************)
(* Small helpers.                                                          *)
(***************************************************************************)
SeqsUpTo(S, n) == UNION { [1..k -> S] : k \in 0..n }

Take(s, n) == SubSeq(s, 1, n)
Drop(s, n) == SubSeq(s, n + 1, Len(s))

IsPrefix(p, s) == Len(p) <= Len(s) /\ Take(s, Len(p)) = p

(***************************************************************************)
(* Frame codec (internal/proto).                                           *)
(*                                                                         *)
(* A byte is 0..255.  A uint32 is kept as two 16-bit limbs <<hi, lo>> so    *)
(* that every 32-bit value, 2^32-1 included, is representable.             *)
(***************************************************************************)
FrameTypeNEW_CONN == 1
FrameTypeDATA     == 2
FrameTypeCLOSE    == 3
FrameTypeINIT     == 4

\* binary.BigEndian.PutUint32 with the two leading bytes swapped: a byte-order slip.
PutUint32Swapped(v) ==
    << v[1] % 256, v[1] \div 256, v[2] \div 256, v[2] % 256 >>

\* binary.BigEndian.PutUint32: the four bytes of v, most significant first.
PutUint32(v) ==
    << v[1] \div 256, v[1] % 256, v[2] \div 256, v[2] % 256 >>

\* binary.BigEndian.Uint32: the value of four bytes, most significant first.
Uint32(b) ==
    << b[1] * 256 + b[2], b[3] * 256 + b[4] >>

\* uint32(n) for a length n the model can hold (n < 2^31).
ToUint32(n) == << (n \div 65536) % 65536, n % 65536 >>

\* EncodeFrame: type(1) | conn_id(4, big endian) | payload_len(4, big endian) | payload.
EncodeFrame(f) ==
    <<f.Type>> \o PutUint32(f.ConnID) \o PutUint32(ToUint32(Len(f.Payload)))
        \o f.Payload

\* io.ReadFull(r, buf) for len(buf) = n on a reader holding the bytes r:
\* the n bytes and the rest, or io.EOF (nothing read) / io.ErrUnexpectedEOF.
ReadFull(r, n) ==
    IF Len(r) >= n
    THEN [err |-> "nil", data |-> Take(r, n), rest |-> Drop(r, n)]
    ELSE [err |-> IF Len(r) = 0 THEN "EOF" ELSE "ErrUnexpectedEOF",
          data |-> <<>>, rest |-> <<>>]

NoFrame == [Type |-> 0, ConnID |-> <<0, 0>>, Payload |-> <<>>]

\* DecodeFrame: read the 9-byte header, then payload_len bytes of payload.
\* A payload_len of 2^16 or more cannot be satisfied by the readers of this
\* model (MaxPayload + MaxRest bytes): ReadFull then ends in a short read.
DecodeFrame(r) ==
    LET h == ReadFull(r, 9) IN
    IF h.err # "nil"
    THEN [err |-> h.err, frame |-> NoFrame, rest |-> h.rest]
    ELSE
      LET frameType  == h.data[1]
          connID     == Uint32(SubSeq(h.data, 2, 5))
          payloadLen == Uint32(SubSeq(h.data, 6, 9))
      IN
      IF payloadLen = <<0, 0>>
      THEN [err |-> "nil",
            frame |-> [Type |-> frameType, ConnID |-> connID, Payload |-> <<>>],
            rest |-> h.rest]
      ELSE
        LET p == IF payloadLen[1] > 0
                 THEN [err |-> IF Len(h.rest) = 0 THEN "EOF" ELSE "ErrUnexpectedEOF",
                       data |-> <<>>, rest |-> <<>>]
                 ELSE ReadFull(h.rest, payloadLen[2])
        IN
        IF p.err # "nil"
        THEN [err |-> p.err, frame |-> NoFrame, rest |-> p.rest]
        ELSE [err |-> "nil",
              frame |-> [Type |-> frameType, ConnID |-> connID, Payload |-> p.data],
              rest |-> p.rest]

(***************************************************************************)
(* SpecCodec: the codec applied to bounded inputs.  A run starts either    *)
(* from a frame (encode, decode, encode again) or from raw reader bytes    *)
(* (decode, encode).                                                       *)
(***************************************************************************)
TypeSamples == {0, FrameTypeNEW_CONN, FrameTypeDATA, FrameTypeCLOSE, FrameTypeINIT, 255}
IdSamples   == {<<0, 0>>, <<0, 1>>, <<0, 256>>, <<1, 0>>, <<258, 772>>, <<65535, 65535>>}
ByteSamples == {0, 1, 255}

CodecFrames ==
    [Type : TypeSamples, ConnID : IdSamples, Payload : SeqsUpTo(ByteSamples, MaxPayload)]

CodecRests == SeqsUpTo(ByteSamples, MaxRest)

\* Reader contents that need not come from EncodeFrame: a header with any
\* declared length, a tail, and every truncation of it.
RawHeaders ==
    { <<t>> \o id \o ln :
        t \in {FrameTypeDATA, 255},
        id \in [1..4 -> {0, 255}],
        ln \in { <<0, 0, 0, n>> : n \in 0..(MaxPayload + 1) }
                 \cup { <<0, 1, 0, 0>>, <<255, 255, 255, 255>> } }

RawWires ==
    UNION { { Take(h \o t, n) : n \in 0..(9 + Len(t)) } :
              h \in RawHeaders, t \in SeqsUpTo(ByteSamples, MaxPayload + MaxRest) }

NoResult == [err |-> "none", frame |-> NoFrame, rest |-> <<>>]

CodecIdle ==
    [stage |-> "idle", src |-> "none", f |-> NoFrame, rest |-> <<>>,
     wire |-> <<>>, res |-> NoResult, re |-> <<>>]

CodecInputs ==
    \/ \E f \in CodecFrames, r \in CodecRests :
          codec = [CodecIdle EXCEPT !.stage = "frame", !.src = "frame", !.f = f, !.rest = r]
    \/ \E w \in RawWires :
          codec = [CodecIdle EXCEPT !.stage = "wire", !.src = "raw", !.wire = w]

\* The writer: the encoded frame goes to the stream, followed by later bytes.
CodecEncode ==
    /\ codec.stage = "frame"
    /\ codec' = [codec EXCEPT !.stage = "wire",
                               !.wire = EncodeFrame(codec.f) \o codec.rest]
    /\ UNCHANGED <<icfgVars, pqcVars, wireVars, runVars, tunnelVars, idsVars, tlsVars>>

\* The reader: one DecodeFrame call on the stream.
CodecDecode ==
    /\ codec.stage = "wire"
    /\ codec' = [codec EXCEPT !.stage = "decoded", !.res = DecodeFrame(codec.wire)]
    /\ UNCHANGED <<icfgVars, pqcVars, wireVars, runVars, tunnelVars, idsVars, tlsVars>>

\* The decoded frame is encoded again.
CodecReencode ==
    /\ codec.stage = "decoded"
    /\ codec.res.err = "nil"
    /\ codec' = [codec EXCEPT !.stage = "done", !.re = EncodeFrame(codec.res.frame)]
    /\ UNCHANGED <<icfgVars, pqcVars, wireVars, runVars, tunnelVars, idsVars, tlsVars>>

(***************************************************************************)
(* INIT configuration codec (internal/proto).  A string is a sequence of   *)
(* byte codes: '0'..'9' are 48..57, ':' is 58, '+' 43, '-' 45, 'a' 97.     *)
(***************************************************************************)
Ch == [colon |-> 58, zero |-> 48, plus |-> 43, minus |-> 45, a |-> 97]
ChColon == Ch.colon
ChZero  == Ch.zero
ChPlus  == Ch.plus
ChMinus == Ch.minus
ChA     == Ch.a

RECURSIVE FormatUint(_)
\* The decimal digits of n >= 0, most significant first.
FormatUint(n) ==
    IF n < 10 THEN << ChZero + n >>
    ELSE FormatUint(n \div 10) \o << ChZero + (n % 10) >>

\* fmt.Sprintf("%d", n).
FormatInt(n) == IF n < 0 THEN <<ChMinus>> \o FormatUint(-n) ELSE FormatUint(n)

\* EncodeInitConfig: fmt.Sprintf("%d:%s", RemotePort, LocalAddr).
EncodeInitConfig(config) ==
    FormatInt(config.RemotePort) \o <<ChColon>> \o config.LocalAddr

RECURSIVE IndexFrom(_, _, _)
\* The first index >= i of byte c in s, or 0 when there is none.
IndexFrom(s, c, i) ==
    IF i > Len(s) THEN 0
    ELSE IF s[i] = c THEN i
    ELSE IndexFrom(s, c, i + 1)

RECURSIVE LastIndexFrom(_, _, _)
LastIndexFrom(s, c, i) ==
    IF i < 1 THEN 0
    ELSE IF s[i] = c THEN i
    ELSE LastIndexFrom(s, c, i - 1)

\* A split at the last ':' instead of the first.
SplitAtLastColon(s) ==
    LET i == LastIndexFrom(s, ChColon, Len(s)) IN
    IF i = 0 THEN << s >> ELSE << Take(s, i - 1), Drop(s, i) >>

\* strings.SplitN(s, ":", 2): at most two parts, split at the first ':'.
SplitN2(s) ==
    LET i == IndexFrom(s, ChColon, 1) IN
    IF i = 0 THEN << s >> ELSE << Take(s, i - 1), Drop(s, i) >>

RECURSIVE AtoiDigits(_, _, _)
\* The digit loop of strconv.Atoi: n = n*10 + (ch - '0'), a syntax error on
\* the first byte for which ch - '0' (a byte subtraction) exceeds 9.
AtoiDigits(s, i, n) ==
    IF i > Len(s) THEN [err |-> "nil", n |-> n]
    ELSE LET ch == (s[i] - ChZero) % 256 IN
         IF ch > 9 THEN [err |-> "syntax", n |-> 0]
         ELSE AtoiDigits(s, i + 1, n * 10 + ch)

\* strconv.Atoi on a string short enough for its fast path (the strings of
\* this model are): an optional sign, then at least one digit, digits only.
Atoi(s) ==
    IF Len(s) = 0 THEN [err |-> "syntax", n |-> 0]
    ELSE
      LET signed == s[1] = ChMinus \/ s[1] = ChPlus
          body   == IF signed THEN Drop(s, 1) ELSE s
      IN
      IF Len(body) < 1 THEN [err |-> "syntax", n |-> 0]
      ELSE LET r == AtoiDigits(body, 1, 0) IN
           IF r.err # "nil" THEN r
           ELSE [err |-> "nil", n |-> IF s[1] = ChMinus THEN -r.n ELSE r.n]

NoConfig == [RemotePort |-> 0, LocalAddr |-> <<>>]

\* DecodeInitConfig: split at the first ':', parse the port, keep the rest.
DecodeInitConfig(data) ==
    LET parts == SplitN2(data) IN
    IF Len(parts) # 2
    THEN [err |-> "invalid init config format", config |-> NoConfig]
    ELSE LET a == Atoi(parts[1]) IN
         IF a.err # "nil"
         THEN [err |-> "invalid remote port", config |-> NoConfig]
         ELSE [err |-> "nil",
               config |-> [RemotePort |-> a.n, LocalAddr |-> parts[2]]]

(***************************************************************************)
(* SpecInitConfig: the INIT codec applied to bounded inputs.               *)
(***************************************************************************)
PortSamples == {-1, 0, 1, 9, 10, 80, 99, 100, 443, 7000, 8080, 18080, 65535}
AddrSamples == SeqsUpTo({ChA, ChColon, ChZero + 1}, MaxAddr)
RawPayloads == SeqsUpTo({ChZero, ChZero + 1, ChZero + 9, ChColon, ChA, ChPlus, ChMinus}, MaxRaw)

IcfgIdle ==
    [stage |-> "idle", src |-> "none", config |-> NoConfig, payload |-> <<>>,
     res |-> [err |-> "none", config |-> NoConfig]]

IcfgInputs ==
    \/ \E p \in PortSamples, a \in AddrSamples :
          icfg = [IcfgIdle EXCEPT !.stage = "config", !.src = "config",
                                  !.config = [RemotePort |-> p, LocalAddr |-> a]]
    \/ \E d \in RawPayloads :
          icfg = [IcfgIdle EXCEPT !.stage = "payload", !.src = "raw", !.payload = d]

\* Client.sendInitConfig builds the INIT payload.
IcfgEncode ==
    /\ icfg.stage = "config"
    /\ icfg' = [icfg EXCEPT !.stage = "payload",
                            !.payload = EncodeInitConfig(icfg.config)]
    /\ UNCHANGED <<codecVars, pqcVars, wireVars, runVars, tunnelVars, idsVars, tlsVars>>

\* Server.handleInitFrame parses the INIT payload.
IcfgDecode ==
    /\ icfg.stage = "payload"
    /\ icfg' = [icfg EXCEPT !.stage = "decoded",
                            !.res = DecodeInitConfig(icfg.payload)]
    /\ UNCHANGED <<codecVars, pqcVars, wireVars, runVars, tunnelVars, idsVars, tlsVars>>


(***************************************************************************)
(* PQC transport (internal/pqctls): the check made after a handshake.      *)
(* A group name is a sequence of one-character strings, or NULL.           *)
(***************************************************************************)
NULL == <<"NULL">>

\* strstr(haystack, needle) != NULL
strstr(h, n) ==
    \E i \in 1..(Len(h) - Len(n) + 1) : SubSeq(h, i, i + Len(n) - 1) = n

N_MLKEM  == <<"M", "L", "K", "E", "M">>
N_ML_KEM == <<"M", "L", "-", "K", "E", "M">>
N_KYBER  == <<"K", "Y", "B", "E", "R">>
N_mlkem  == <<"m", "l", "k", "e", "m">>
N_ml_kem == <<"m", "l", "-", "k", "e", "m">>

\* verify_pqc_algorithms: 1 when the negotiated group is taken for ML-KEM.
verify_pqc_algorithms(ssl) ==
    IF ssl.group_id <= 0 THEN 0
    ELSE IF ssl.group_name = NULL THEN 0
    ELSE IF /\ ~strstr(ssl.group_name, N_MLKEM)
            /\ ~strstr(ssl.group_name, N_ML_KEM)
            /\ ~strstr(ssl.group_name, N_KYBER)
            /\ ~strstr(ssl.group_name, N_mlkem)
            /\ ~strstr(ssl.group_name, N_ml_kem)
         THEN 0
    ELSE 1

(***************************************************************************)
(* A handshake peer: what the remote end makes the local TLS library       *)
(* return.  pre: the outcome of SSL_new / SSL_set_fd; wants: how many       *)
(* calls of SSL_accept / SSL_connect end in want-read or want-write before *)
(* the final one; final: "ok" (ret > 0) or "error"; the negotiated group.  *)
(***************************************************************************)
ErrNonPQC  == "handshake succeeded but non-PQC algorithms were negotiated, connection rejected"
ErrSSL     == "SSL handshake failed"
ErrSSLNew  == "failed to create SSL object"
ErrSetFd   == "failed to set SSL file descriptor"

GroupNames ==
    { N_MLKEM \o <<"7", "6", "8">>,
      N_ML_KEM \o <<"-", "7", "6", "8">>,
      N_mlkem \o <<"5", "1", "2">>,
      N_ml_kem \o <<"-", "5", "1", "2">>,
      N_KYBER \o <<"7", "6", "8">>,
      <<"X", "2", "5", "5", "1", "9">>,
      <<"X", "2", "5", "5", "1", "9">> \o N_MLKEM \o <<"7", "6", "8">>,
      <<"p", "2", "5", "6", "_">> \o N_mlkem \o <<"5", "1", "2">>,
      <<"s", "e", "c", "p", "2", "5", "6", "r", "1">>,
      <<"M", "L", "K", "E">>,
      <<>>,
      NULL }

NameMLKEM768 == N_MLKEM \o <<"7", "6", "8">>
NameX25519   == <<"X", "2", "5", "5", "1", "9">>

Negotiated(w, id, n) ==
    [pre |-> "ok", wants |-> w, final |-> "ok", group_id |-> id, group_name |-> n]

Peers ==
    { Negotiated(0, 513, n) : n \in GroupNames }
    \cup { Negotiated(w, 513, n) : w \in 1..MaxWant, n \in {NameMLKEM768, NameX25519} }
    \cup { Negotiated(0, 0, NameMLKEM768), Negotiated(0, 0, NULL) }
    \cup [pre : {"ok"}, wants : 0..MaxWant, final : {"error"}, group_id : {0},
          group_name : {NULL}]
    \cup [pre : {"ssl_new", "set_fd"}, wants : {0}, final : {"error"}, group_id : {0},
          group_name : {NULL}]

\* The tunnel client on a plain TCP control channel: no handshake at all.
PlainPeer == [pre |-> "ok", wants |-> 0, final |-> "ok", group_id |-> 0, group_name |-> NULL]

\* A peer that negotiates ML-KEM-768 (group id 0x0201).
CompliantPeer(p) ==
    /\ p.pre = "ok" /\ p.final = "ok" /\ p.group_id > 0
    /\ p.group_name = NameMLKEM768

\* What the calls before the handshake loop leave behind (Accept lines
\* 361-371, Dial lines 463-473): SSL_new fails -> the socket is closed;
\* SSL_set_fd fails -> the session is freed and the socket closed.
HandshakeSetup(p) ==
    CASE p.pre = "ssl_new" -> [err |-> ErrSSLNew, ssl |-> "none", sock |-> "closed"]
      [] p.pre = "set_fd"  -> [err |-> ErrSetFd, ssl |-> "freed", sock |-> "closed"]
      [] OTHER             -> [err |-> "nil", ssl |-> "live", sock |-> "open"]

\* One iteration of the handshake loop (Accept lines 374-411, Dial lines
\* 476-513), on the i-th call of SSL_accept / SSL_connect.
HandshakeIteration(p, i) ==
    IF i <= p.wants
    THEN \* SSL_ERROR_WANT_READ / SSL_ERROR_WANT_WRITE: call again
         [done |-> FALSE, err |-> "nil", ssl |-> "live", sock |-> "open"]
    ELSE IF p.final = "ok"
    THEN IF verify_pqc_algorithms(p) = 0
         THEN [done |-> TRUE, err |-> ErrNonPQC, ssl |-> "freed", sock |-> "closed"]
         ELSE [done |-> TRUE, err |-> "nil", ssl |-> "live", sock |-> "open"]
    ELSE [done |-> TRUE, err |-> ErrSSL, ssl |-> "freed", sock |-> "closed"]

(***************************************************************************)
(* Control connections.  ctl[c] holds both ends of connection c:           *)
(*   srv   the server's end: "none", "backlog" (not yet returned by        *)
(*         Accept), "handshake", "open", "closed"                          *)
(*   cli   the remote end: "open" or "closed"                              *)
(*   ssl   the server's TLS session object: "none", "live", "freed"        *)
(*   err   the error Accept returned for it ("nil": none)                  *)
(*   peer  the remote end's handshake behaviour                            *)
(*   net   the path between the ends: "up" or "cut"                        *)
(*   inits INIT frames a remote end other than the tunnel client has sent  *)
(***************************************************************************)
Ctl == 1..MaxCtl

NoCtl == [srv |-> "none", cli |-> "none", ssl |-> "none", err |-> "nil", peer |-> PlainPeer,
          net |-> "up", inits |-> 0]

AccIdle == [pc |-> "accept", c |-> 0, i |-> 0]

DialerIdle == [stage |-> "idle", peer |-> PlainPeer, i |-> 0, ssl |-> "none",
               sock |-> "none", err |-> "nil"]


\* The remote ends that have closed and the shutdown requests so far.
Ends ==
    Cardinality({c \in Ctl : ctl[c].cli = "closed"}) + (IF run.ctx = "done" THEN 1 ELSE 0)

\* run: the server process.
\*   global  Server.publicListenAddr is set: one public listener for all
\*   ctx     the context handed to Run: "live" or "done" (cancelled)
\*   pc      Run: "off" (not running), "wait" (at <-ctx.Done()), "unreg"
\*           (cleanup, inside its call of unregisterClient), "closing"
\*           (cleanup, at the global listener), "ret" (returned)
\*   mu      Server.clientsMu: "free", or "cleanup" while cleanup holds it
\*   controlListener, publicListener: "nil", "open" or "closed"
\*   g       acceptPublicConnections: pc, the socket and session in hand
GlobIdle == [pc |-> "none", e |-> 0, c |-> 0]

RunIdle == [global |-> FALSE, ctx |-> "live", pc |-> "off", mu |-> "free",
            controlListener |-> "nil", publicListener |-> "nil", g |-> GlobIdle]

\* Run up to line 290: the listeners are bound and the accept loops started.
RunStarted(global) ==
    [RunIdle EXCEPT !.global = global, !.pc = "wait", !.controlListener = "open",
                    !.publicListener = IF global THEN "open" ELSE "nil",
                    !.g = IF global THEN [GlobIdle EXCEPT !.pc = "accept"] ELSE GlobIdle]

\* clientsMu can be taken.
MuFree == run.mu = "free"

\* The select at the top of the frame loop of handleFramesFromClient.
FrameLoopTop == IF run.ctx = "done" THEN "return" ELSE "run"

\* The select at the top of the control accept loop of Run.
AcceptLoopTop == IF run.ctx = "done" THEN [pc |-> "stopped", c |-> 0, i |-> 0]
                 ELSE [pc |-> "accept", c |-> 0, i |-> 0]

(***************************************************************************)
(* Tunnel state.                                                           *)
(***************************************************************************)
Ext  == 1..MaxConns     \* external connections, in the order accepted
Sids == 1..MaxConns     \* the stream ids a session can hand out in this model

NoInfo == [ID |-> 0, LocalAddr |-> <<>>, RemotePort |-> 0]

EmptyMap == [s \in Sids |-> 0]

\* ext[e]: an external socket.  sess, sid: the session and stream id it was
\* given; srv: the server's end ("open"/"closed"); user: the remote user's
\* end; rd: the pc of its reader task; rbuf: the chunk the reader holds;
\* sent: chunks the user has written and the server has read; out: chunks
\* the server has written to it; ann: NEW_CONN has been written for it;
\* closeW: 0 while the server has written no CLOSE for its stream, 1 once it
\* has written one, 2 once it has written a further frame for the stream.
NoExt == [sess |-> 0, sid |-> 0, ann |-> FALSE, srv |-> "none", user |-> "none",
          rd |-> "none", rbuf |-> <<>>, sent |-> 0, out |-> <<>>, closeW |-> 0]

\* loc[e]: the local socket dialled for the NEW_CONN of external socket e.
\* ctlc: the control connection the NEW_CONN came on; sid: its stream id;
\* cli: the client's end ("none"/"open"/"closed"); svc: the local service's
\* end; fw: the pc of forwardLocalToServer; fbuf: the chunk it holds; sent:
\* chunks the service has written and the client has read; out: chunks the
\* client has written to it; dial: "none", "ok" or "failed"; closeW: as for
\* ext, for the frames the client's tasks of this stream have written.
NoLoc == [ctlc |-> 0, sid |-> 0, cli |-> "none", svc |-> "none", fw |-> "none",
          fbuf |-> <<>>, sent |-> 0, out |-> <<>>, dial |-> "none", closeW |-> 0]

\* The k-th chunk the remote user writes to external socket e, and the k-th
\* chunk the local service writes to local socket l.
UserTok(e, k) == [src |-> "user", conn |-> e, k |-> k]
SvcTok(l, k)  == [src |-> "svc", conn |-> l, k |-> k]

\* The client's configuration: it asks for a public port of its own.
ClientConfig == [RemotePort |-> 8080, LocalAddr |-> <<ChA, ChColon, ChZero + 1>>]

Frame(t, id, pl) == [Type |-> t, ConnID |-> id, Payload |-> pl]

InitTunnelData ==
    /\ info = [c \in Ctl |-> NoInfo]
    /\ NextConnID = [c \in Ctl |-> 0]
    /\ ConnMap = [c \in Ctl |-> EmptyMap]
    /\ PublicListener = [c \in Ctl |-> "nil"]
    /\ srvRd = [c \in Ctl |-> "none"]
    /\ acc = [c \in Ctl |-> [pc |-> "none", e |-> 0]]
    /\ c2s = [c \in Ctl |-> <<>>]
    /\ s2c = [c \in Ctl |-> <<>>]
    /\ nExt = 0
    /\ ext = [e \in Ext |-> NoExt]
    /\ nLoc = 0
    /\ loc = [l \in Ext |-> NoLoc]
    /\ connMap = EmptyMap

InitControl ==
    /\ ctl = [c \in Ctl |-> NoCtl]
    /\ nCtl = 0
    /\ backlog = <<>>
    /\ srvAcc = AccIdle
    /\ clients = {}
    /\ nextClientID = 0

(***************************************************************************)
(* Server: the control accept loop (Server.Run) and the registry.          *)
(***************************************************************************)
\* registerClient: a new ClientInfo under the next client id; Run then
\* starts handleClientConnection for it.
registerClient(c) ==
    /\ MuFree
    /\ nextClientID' = nextClientID + 1
    /\ info' = [info EXCEPT ![c] = [NoInfo EXCEPT !.ID = nextClientID + 1]]
    /\ clients' = clients \cup {c}
    /\ NextConnID' = [NextConnID EXCEPT ![c] = 0]
    /\ srvRd' = [srvRd EXCEPT ![c] = FrameLoopTop]

\* The accept loop with a failed Accept ending the loop instead of continuing.
AcceptFailedStop(c, r) ==
    /\ ctl' = [ctl EXCEPT ![c].srv = "closed", ![c].ssl = r.ssl, ![c].err = r.err]
    /\ srvAcc' = [pc |-> "stopped", c |-> 0, i |-> 0]
    /\ UNCHANGED <<nextClientID, info, clients, NextConnID, srvRd>>

\* Accept returned an error: the connection is gone, the error is logged
\* and the loop continues (Run lines 274-280).
AcceptFailed(c, r) ==
    /\ ctl' = [ctl EXCEPT ![c].srv = "closed", ![c].ssl = r.ssl, ![c].err = r.err]
    /\ srvAcc' = AcceptLoopTop
    /\ UNCHANGED <<nextClientID, info, clients, NextConnID, srvRd>>

\* Accept returned a connection: it is registered (Run lines 282-287).
AcceptReturned(c) ==
    /\ ctl' = [ctl EXCEPT ![c].srv = "open",
                          ![c].ssl = IF useTLS THEN "live" ELSE "none"]
    /\ srvAcc' = AcceptLoopTop
    /\ registerClient(c)

\* controlListener.Accept takes the next connection of the accept queue.
\* A plain listener returns it at once; PQCListener.Accept creates the TLS
\* session and enters the handshake loop.
SrvAccept ==
    /\ srvUp
    /\ run.controlListener = "open"
    /\ srvAcc.pc = "accept"
    /\ backlog # <<>>
    /\ LET c == Head(backlog)
           st == HandshakeSetup(ctl[c].peer)
       IN
       /\ backlog' = Tail(backlog)
       /\ IF ~useTLS THEN AcceptReturned(c)
          ELSE IF st.err # "nil" THEN AcceptFailed(c, st)
          ELSE /\ ctl' = [ctl EXCEPT ![c].srv = "handshake", ![c].ssl = "live"]
               /\ srvAcc' = [pc |-> "handshake", c |-> c, i |-> 1]
               /\ UNCHANGED <<nextClientID, info, clients, NextConnID, srvRd>>
    /\ UNCHANGED <<useTLS, srvUp, nStarts, nCtl, ConnMap, PublicListener, acc>>
    /\ UNCHANGED <<chanVars, strmVars, cliVars>>
    /\ UNCHANGED <<codecVars, icfgVars, pqcVars, wireVars, runVars, idsVars, tlsVars>>

\* One call of SSL_accept inside PQCListener.Accept.
SrvHandshake ==
    /\ srvUp
    /\ srvAcc.pc = "handshake"
    /\ LET c == srvAcc.c
           r == HandshakeIteration(ctl[c].peer, srvAcc.i)
       IN
       IF ~r.done
       THEN /\ srvAcc' = [srvAcc EXCEPT !.i = srvAcc.i + 1]
            /\ UNCHANGED <<ctl, nextClientID, info, clients, NextConnID, srvRd>>
       ELSE IF r.err # "nil" THEN AcceptFailed(c, r)
       ELSE AcceptReturned(c)
    /\ UNCHANGED <<useTLS, srvUp, nStarts, nCtl, backlog, ConnMap, PublicListener, acc>>
    /\ UNCHANGED <<chanVars, strmVars, cliVars>>
    /\ UNCHANGED <<codecVars, icfgVars, pqcVars, wireVars, runVars, idsVars, tlsVars>>

\* A remote end connects to the control address (the SpecPQC peers).
PeerConnects ==
    /\ srvUp
    /\ dialer.stage = "idle"      \* this process listens; it does not dial
    /\ nCtl < MaxCtl
    /\ \E p \in Peers :
         /\ ctl' = [ctl EXCEPT ![nCtl + 1] =
                        [NoCtl EXCEPT !.srv = "backlog", !.cli = "open", !.peer = p]]
    /\ nCtl' = nCtl + 1
    /\ backlog' = Append(backlog, nCtl + 1)
    /\ UNCHANGED <<useTLS, srvUp, nStarts, srvAcc, clients, nextClientID>>
    /\ UNCHANGED <<sessVars, chanVars, strmVars, cliVars>>
    /\ UNCHANGED <<codecVars, icfgVars, pqcVars, wireVars, runVars, idsVars, tlsVars>>

\* The events of the environment so far.  A cut control path uses up the
\* whole budget of a run: it is the only event of its run.
EnvEvents ==
    Cardinality({e \in Ext : ext[e].user = "closed"})
    + Cardinality({l \in Ext : loc[l].svc = "closed" \/ loc[l].dial = "failed"})
    + MaxEvents * Cardinality({c \in Ctl : ctl[c].net = "cut"})
    + (IF srvUp THEN nStarts - 1 ELSE nStarts)

(***************************************************************************)
(* Writes.  A write on a socket whose own end is closed fails; a write     *)
(* towards an end that is gone (closed, or behind a cut path) either fails *)
(* or succeeds locally with the bytes never delivered; otherwise the bytes *)
(* are delivered in order.                                                 *)
(***************************************************************************)
WriteOutcomes(mine, peerGone) ==
    IF mine # "open" THEN {"err"}
    ELSE IF peerGone THEN {"lost", "err"}
    ELSE {"ok"}

\* Write returned no error: the frame has been written.
Written(w) == w \in {"ok", "lost"}

\* The record of the frames written for a stream, after a CLOSE write and
\* after a DATA write with outcome w.
CloseWritten(n, w) == IF ~Written(w) THEN n ELSE IF n = 0 THEN 1 ELSE 2
DataWritten(n, w)  == IF Written(w) /\ n > 0 THEN 2 ELSE n

\* clientInfo.Conn.Write(frameData) on session c.
SrvWriteOutcomes(c) ==
    WriteOutcomes(ctl[c].srv, ctl[c].cli = "closed" \/ ctl[c].net = "cut")

SrvWritten(c, f, w) ==
    s2c' = IF w = "ok" THEN [s2c EXCEPT ![c] = Append(@, f)] ELSE s2c

\* Server.sendCloseFrame: nothing is written for a session that is not in
\* the registry.
SrvCloseOutcomes(c) == IF c \notin clients THEN {"skip"} ELSE SrvWriteOutcomes(c)

\* publicConn.Write(payload) on external socket e.
ExtWriteOutcomes(e) == WriteOutcomes(ext[e].srv, ext[e].user = "closed")

\* A lookup that ignores the id and returns the first stored socket.
LoadConnFirst(c, sid) ==
    IF \E t \in Sids : ConnMap[c][t] # 0
    THEN ConnMap[c][CHOOSE t \in Sids : ConnMap[c][t] # 0 /\ \A u \in Sids : ConnMap[c][u] # 0 => t <= u]
    ELSE 0

\* ClientInfo.ConnMap.Load(connID) on session c.
LoadConn(c, sid) == IF sid \in Sids THEN ConnMap[c][sid] ELSE 0

(***************************************************************************)
(* Server: unregisterClient and the frame reader of a session.             *)
(***************************************************************************)
\* unregisterClient: close every socket of the stream table and empty it,
\* close the session's listener and control connection, drop the session.
unregisterClient(c) ==
    /\ ext' = [e \in Ext |->
                 IF \E t \in Sids : ConnMap[c][t] = e
                 THEN [ext[e] EXCEPT !.srv = "closed"] ELSE ext[e]]
    /\ ConnMap' = [ConnMap EXCEPT ![c] = EmptyMap]
    /\ PublicListener' = [PublicListener EXCEPT ![c] = IF @ = "open" THEN "closed" ELSE @]
    /\ ctl' = [ctl EXCEPT ![c].srv = "closed",
                          ![c].ssl = IF @ = "live" THEN "freed" ELSE @]
    /\ clients' = clients \ {c}

\* The frame loop returns: its deferred function closes the connection,
\* then handleClientConnection's deferred function calls unregisterClient,
\* which waits for clientsMu for as long as cleanup holds it.
FrameLoopReturns(c) ==
    /\ c2s' = [c2s EXCEPT ![c] = <<>>]
    /\ IF ~MuFree
       THEN /\ srvRd' = [srvRd EXCEPT ![c] = "unreg"]
            /\ ctl' = [ctl EXCEPT ![c].srv = "closed"]
            /\ UNCHANGED <<ext, ConnMap, PublicListener, clients>>
       ELSE /\ srvRd' = [srvRd EXCEPT ![c] = "done"]
            /\ IF c \in clients THEN unregisterClient(c)
               ELSE /\ ctl' = [ctl EXCEPT ![c].srv = "closed"]
                    /\ UNCHANGED <<ext, ConnMap, PublicListener, clients>>

\* handleFramesFromClient: DecodeFrame fails (the peer closed, the path is
\* cut, or the connection was closed under the reader); the loop returns,
\* closes the connection, and handleClientConnection unregisters the session.
SrvReaderEnds(c) ==
    /\ srvUp
    /\ srvRd[c] = "run"
    /\ \/ c2s[c] = <<>> /\ (ctl[c].cli = "closed" \/ ctl[c].srv = "closed")
       \/ ctl[c].net = "cut"
    /\ FrameLoopReturns(c)
    /\ UNCHANGED <<useTLS, srvUp, nStarts, nCtl, backlog, srvAcc, nextClientID>>
    /\ UNCHANGED <<info, NextConnID, acc, s2c, nExt, nLoc, loc, cliVars>>
    /\ UNCHANGED <<codecVars, icfgVars, pqcVars, wireVars, runVars, idsVars, tlsVars>>

\* handleFramesFromClient finds the context cancelled at the top of its
\* loop and returns.
SrvReaderCancelled(c) ==
    /\ srvUp
    /\ srvRd[c] = "return"
    /\ FrameLoopReturns(c)
    /\ UNCHANGED <<useTLS, srvUp, nStarts, nCtl, backlog, srvAcc, nextClientID>>
    /\ UNCHANGED <<info, NextConnID, acc, s2c, nExt, nLoc, loc, cliVars>>
    /\ UNCHANGED <<codecVars, icfgVars, pqcVars, wireVars, runVars, idsVars, tlsVars>>

\* A server that takes no notice of its global public address.
GlobalAddrIgnored == FALSE

\* handleInitFrame, line 683: s.publicListenAddr != "".
GlobalAddrSet == run.global

\* A bind that never finds the port taken.
PortNeverHeld(c, port) == FALSE

\* Another session's listener holds the port.
PortHeld(c, port) ==
    \E d \in Ctl \ {c} : PublicListener[d] = "open" /\ info[d].RemotePort = port

\* handleInitFrame (no global public address): decode the configuration,
\* record it, and for RemotePort > 0 bind the session's own listener and
\* start its acceptor.
SrvHandleInit(c) ==
    /\ srvUp
    /\ srvRd[c] = "run"
    /\ MuFree
    /\ srvRd' = [srvRd EXCEPT ![c] = FrameLoopTop]
    /\ c2s[c] # <<>>
    /\ Head(c2s[c]).Type = FrameTypeINIT
    /\ c2s' = [c2s EXCEPT ![c] = Tail(@)]
    /\ LET r == DecodeInitConfig(Head(c2s[c]).Payload)
           bind == /\ c \in clients
                   /\ ~GlobalAddrSet
                   /\ r.err = "nil"
                   /\ r.config.RemotePort > 0
                   /\ PublicListener[c] = "nil"
                   /\ ~PortHeld(c, r.config.RemotePort)
       IN
       /\ info' = IF c \notin clients THEN info
                  ELSE IF GlobalAddrSet
                  THEN [info EXCEPT ![c].LocalAddr = <<>>, ![c].RemotePort = 0]
                  ELSE IF r.err = "nil"
                  THEN [info EXCEPT ![c].LocalAddr = r.config.LocalAddr,
                                    ![c].RemotePort = r.config.RemotePort]
                  ELSE info
       /\ PublicListener' = IF bind THEN [PublicListener EXCEPT ![c] = "open"]
                            ELSE PublicListener
       /\ acc' = IF bind THEN [acc EXCEPT ![c] = [pc |-> "accept", e |-> 0]] ELSE acc
    /\ UNCHANGED <<ctlVars, NextConnID, ConnMap, s2c, strmVars, cliVars>>
    /\ UNCHANGED <<codecVars, icfgVars, pqcVars, wireVars, runVars, idsVars, tlsVars>>

\* handleDataFrame: write the payload to the socket the stream table holds
\* for the frame's id; an unknown id is logged and the frame dropped; a
\* failed write closes the socket, removes the entry and sends CLOSE.
SrvHandleData(c) ==
    /\ srvUp
    /\ srvRd[c] = "run"
    /\ MuFree
    /\ srvRd' = [srvRd EXCEPT ![c] = FrameLoopTop]
    /\ c2s[c] # <<>>
    /\ Head(c2s[c]).Type = FrameTypeDATA
    /\ LET f == Head(c2s[c])
           e == IF c \in clients THEN LoadConn(c, f.ConnID) ELSE 0
       IN
       IF e = 0 \/ Len(f.Payload) = 0
       THEN /\ c2s' = [c2s EXCEPT ![c] = Tail(@)]
            /\ UNCHANGED <<ext, ConnMap, s2c>>
       ELSE \E w \in ExtWriteOutcomes(e) :
              /\ c2s' = [c2s EXCEPT ![c] = Tail(@)]
              /\ IF w # "err"
                 THEN /\ ext' = [ext EXCEPT ![e].out = @ \o f.Payload]
                      /\ UNCHANGED <<ConnMap, s2c>>
                 ELSE /\ ConnMap' = [ConnMap EXCEPT ![c][f.ConnID] = 0]
                      /\ \E v \in SrvCloseOutcomes(c) :
                           /\ SrvWritten(c, Frame(FrameTypeCLOSE, f.ConnID, <<>>), v)
                           /\ ext' = [ext EXCEPT ![e].srv = "closed",
                                                 ![e].closeW = CloseWritten(@, v)]
    /\ UNCHANGED <<ctlVars, info, NextConnID, PublicListener, acc>>
    /\ UNCHANGED <<nExt, nLoc, loc, cliVars>>
    /\ UNCHANGED <<codecVars, icfgVars, pqcVars, wireVars, runVars, idsVars, tlsVars>>

\* A handleCloseFrame that echoes CLOSE as the client's does.
SrvHandleCloseEchoes(c) ==
    /\ srvUp
    /\ srvRd[c] = "run"
    /\ MuFree
    /\ srvRd' = [srvRd EXCEPT ![c] = FrameLoopTop]
    /\ c2s[c] # <<>>
    /\ Head(c2s[c]).Type = FrameTypeCLOSE
    /\ c2s' = [c2s EXCEPT ![c] = Tail(@)]
    /\ LET f == Head(c2s[c])
           e == IF c \in clients THEN LoadConn(c, f.ConnID) ELSE 0
       IN
       IF e = 0 THEN UNCHANGED <<ext, ConnMap, s2c>>
       ELSE /\ ConnMap' = [ConnMap EXCEPT ![c][f.ConnID] = 0]
            /\ \E v \in SrvCloseOutcomes(c) :
                 /\ SrvWritten(c, Frame(FrameTypeCLOSE, f.ConnID, <<>>), v)
                 /\ ext' = [ext EXCEPT ![e].srv = "closed",
                                       ![e].closeW = CloseWritten(@, v)]
    /\ UNCHANGED <<ctlVars, info, NextConnID, PublicListener, acc>>
    /\ UNCHANGED <<nExt, nLoc, loc, cliVars>>
    /\ UNCHANGED <<codecVars, icfgVars, pqcVars, wireVars, runVars, idsVars, tlsVars>>

\* handleCloseFrame: remove the entry and close its socket; an unknown id
\* is ignored.
SrvHandleClose(c) ==
    /\ srvUp
    /\ srvRd[c] = "run"
    /\ MuFree
    /\ srvRd' = [srvRd EXCEPT ![c] = FrameLoopTop]
    /\ c2s[c] # <<>>
    /\ Head(c2s[c]).Type = FrameTypeCLOSE
    /\ c2s' = [c2s EXCEPT ![c] = Tail(@)]
    /\ LET f == Head(c2s[c])
           e == IF c \in clients THEN LoadConn(c, f.ConnID) ELSE 0
       IN
       IF e = 0 THEN UNCHANGED <<ext, ConnMap>>
       ELSE /\ ConnMap' = [ConnMap EXCEPT ![c][f.ConnID] = 0]
            /\ ext' = [ext EXCEPT ![e].srv = "closed"]
    /\ UNCHANGED <<ctlVars, info, NextConnID, PublicListener, acc>>
    /\ UNCHANGED <<s2c, nExt, nLoc, loc, cliVars>>
    /\ UNCHANGED <<codecVars, icfgVars, pqcVars, wireVars, runVars, idsVars, tlsVars>>

(***************************************************************************)
(* Server: the acceptor of a session's listener and handlePublicConnection.*)
(*   acc[c].pc: "accept" -> "lookup" -> "write" -> "store" -> "accept"     *)
(***************************************************************************)
\* handlePublicConnection with the table insert and the reader started
\* before NEW_CONN is written.
PubLookupStoresFirst(c) ==
    /\ srvUp
    /\ acc[c].pc = "lookup"
    /\ LET e == acc[c].e IN
       /\ NextConnID' = [NextConnID EXCEPT ![c] = @ + 1]
       /\ ext' = [ext EXCEPT ![e].sid = NextConnID[c] + 1, ![e].rd = "read"]
       /\ ConnMap' = [ConnMap EXCEPT ![c][NextConnID[c] + 1] = e]
       /\ acc' = [acc EXCEPT ![c].pc = "write"]
    /\ UNCHANGED <<ctlVars, info, PublicListener, srvRd, chanVars, nExt, nLoc, loc, cliVars>>
    /\ UNCHANGED <<codecVars, icfgVars, pqcVars, wireVars, runVars, idsVars, tlsVars>>

\* listener.Accept returns an external connection.
PubAccept(c) ==
    /\ srvUp
    /\ acc[c].pc = "accept"
    /\ PublicListener[c] = "open"
    /\ nExt < MaxConns
    /\ nExt' = nExt + 1
    /\ ext' = [ext EXCEPT ![nExt + 1] =
                  [NoExt EXCEPT !.sess = c, !.srv = "open", !.user = "open"]]
    /\ acc' = [acc EXCEPT ![c] = [pc |-> "lookup", e |-> nExt + 1]]
    /\ UNCHANGED <<ctlVars, info, NextConnID, ConnMap, PublicListener, srvRd>>
    /\ UNCHANGED <<chanVars, nLoc, loc, cliVars>>
    /\ UNCHANGED <<codecVars, icfgVars, pqcVars, wireVars, runVars, idsVars, tlsVars>>

\* listener.Accept fails on the closed listener: the error is logged and
\* the loop continues.
PubAcceptFails(c) ==
    /\ srvUp
    /\ acc[c].pc = "accept"
    /\ PublicListener[c] = "closed"
    /\ acc' = IF run.ctx = "done" THEN [acc EXCEPT ![c].pc = "done"] ELSE acc
    /\ UNCHANGED <<ctlVars, info, NextConnID, ConnMap, PublicListener, srvRd>>
    /\ UNCHANGED <<chanVars, strmVars, cliVars>>
    /\ UNCHANGED <<codecVars, icfgVars, pqcVars, wireVars, runVars, idsVars, tlsVars>>

\* handlePublicConnection, lines 364-375: the registry lookup (an unknown
\* session closes the socket) and the allocation of the stream id.
PubLookup(c) ==
    /\ srvUp
    /\ acc[c].pc = "lookup"
    /\ MuFree
    /\ LET e == acc[c].e IN
       IF c \in clients
       THEN /\ NextConnID' = [NextConnID EXCEPT ![c] = @ + 1]
            /\ ext' = [ext EXCEPT ![e].sid = NextConnID[c] + 1]
            /\ acc' = [acc EXCEPT ![c].pc = "write"]
       ELSE /\ ext' = [ext EXCEPT ![e].srv = "closed"]
            /\ acc' = [acc EXCEPT ![c] = [pc |-> "accept", e |-> 0]]
            /\ UNCHANGED NextConnID
    /\ UNCHANGED <<ctlVars, info, ConnMap, PublicListener, srvRd, chanVars>>
    /\ UNCHANGED <<nExt, nLoc, loc, cliVars>>
    /\ UNCHANGED <<codecVars, icfgVars, pqcVars, wireVars, runVars, idsVars, tlsVars>>

\* handlePublicConnection going on to the table insert whatever the write
\* of NEW_CONN returned.
PubWriteNewConnUnchecked(c) ==
    /\ srvUp
    /\ acc[c].pc = "write"
    /\ LET e == acc[c].e IN
       \E w \in SrvWriteOutcomes(c) :
         /\ SrvWritten(c, Frame(FrameTypeNEW_CONN, ext[e].sid, <<>>), w)
         /\ ext' = [ext EXCEPT ![e].ann = (w # "err")]
         /\ acc' = [acc EXCEPT ![c].pc = "store"]
    /\ UNCHANGED <<ctlVars, info, NextConnID, ConnMap, PublicListener, srvRd>>
    /\ UNCHANGED <<c2s, nExt, nLoc, loc, cliVars>>
    /\ UNCHANGED <<codecVars, icfgVars, pqcVars, wireVars, runVars, idsVars, tlsVars>>

\* handlePublicConnection, lines 380-397: NEW_CONN is written; a failed
\* write closes the socket.
PubWriteNewConn(c) ==
    /\ srvUp
    /\ acc[c].pc = "write"
    /\ LET e == acc[c].e IN
       \E w \in SrvWriteOutcomes(c) :
         /\ SrvWritten(c, Frame(FrameTypeNEW_CONN, ext[e].sid, <<>>), w)
         /\ IF w = "err"
            THEN /\ ext' = [ext EXCEPT ![e].srv = "closed"]
                 /\ acc' = [acc EXCEPT ![c] = [pc |-> "accept", e |-> 0]]
            ELSE /\ ext' = [ext EXCEPT ![e].ann = TRUE]
                 /\ acc' = [acc EXCEPT ![c].pc = "store"]
    /\ UNCHANGED <<ctlVars, info, NextConnID, ConnMap, PublicListener, srvRd>>
    /\ UNCHANGED <<c2s, nExt, nLoc, loc, cliVars>>
    /\ UNCHANGED <<codecVars, icfgVars, pqcVars, wireVars, runVars, idsVars, tlsVars>>

\* handlePublicConnection, lines 401-410: the socket enters the stream
\* table and its reader task starts.
PubStore(c) ==
    /\ srvUp
    /\ acc[c].pc = "store"
    /\ LET e == acc[c].e IN
       /\ ConnMap' = [ConnMap EXCEPT ![c][ext[e].sid] = e]
       /\ ext' = [ext EXCEPT ![e].rd = IF run.ctx = "done" THEN "defer" ELSE "read"]
    /\ acc' = [acc EXCEPT ![c] = [pc |-> "accept", e |-> 0]]
    /\ UNCHANGED <<ctlVars, info, NextConnID, PublicListener, srvRd, chanVars>>
    /\ UNCHANGED <<nExt, nLoc, loc, cliVars>>
    /\ UNCHANGED <<codecVars, icfgVars, pqcVars, wireVars, runVars, idsVars, tlsVars>>

(***************************************************************************)
(* Server: the reader task of an external socket (lines 410-481).          *)
(*   ext[e].rd: "read" -> "write" -> "read" ..., then "defer" -> "done"    *)
(***************************************************************************)
\* The loop's check at line 427, taken when the task comes back to the top.
ReaderTop(c, sid) ==
    IF run.ctx = "done" THEN "defer"
    ELSE IF LoadConn(c, sid) # 0 THEN "read" ELSE "defer"

\* Read fails because the socket was closed under the reader: no CLOSE.
ExtReadClosed(e) ==
    /\ srvUp
    /\ ext[e].rd = "read"
    /\ ext[e].srv # "open"
    /\ ext' = [ext EXCEPT ![e].rd = "defer"]
    /\ UNCHANGED <<ctlVars, sessVars, chanVars, nExt, nLoc, loc, cliVars>>
    /\ UNCHANGED <<codecVars, icfgVars, pqcVars, wireVars, runVars, idsVars, tlsVars>>

\* Read returns the user's next chunk; the chunk is dropped when the entry
\* has left the table meanwhile (line 457).
ExtReadData(e) ==
    /\ srvUp
    /\ ext[e].rd = "read"
    /\ ext[e].srv = "open"
    /\ ext[e].user = "open"
    /\ ext[e].sent < MaxChunks
    /\ ext' = [ext EXCEPT
                 ![e].sent = @ + 1,
                 ![e].rbuf = IF LoadConn(ext[e].sess, ext[e].sid) # 0
                             THEN <<UserTok(e, ext[e].sent + 1)>> ELSE <<>>,
                 ![e].rd = IF LoadConn(ext[e].sess, ext[e].sid) # 0
                           THEN "write" ELSE "defer"]
    /\ UNCHANGED <<ctlVars, sessVars, chanVars, nExt, nLoc, loc, cliVars>>
    /\ UNCHANGED <<codecVars, icfgVars, pqcVars, wireVars, runVars, idsVars, tlsVars>>

\* Read returns EOF (the user closed): CLOSE is sent.
ExtReadEOF(e) ==
    /\ srvUp
    /\ ext[e].rd = "read"
    /\ ext[e].srv = "open"
    /\ ext[e].user = "closed"
    /\ MuFree
    /\ \E w \in SrvCloseOutcomes(ext[e].sess) :
         /\ IF w = "skip" THEN UNCHANGED s2c
            ELSE SrvWritten(ext[e].sess, Frame(FrameTypeCLOSE, ext[e].sid, <<>>), w)
         /\ ext' = [ext EXCEPT ![e].rd = "defer", ![e].closeW = CloseWritten(@, w)]
    /\ UNCHANGED <<ctlVars, sessVars, c2s, nExt, nLoc, loc, cliVars>>
    /\ UNCHANGED <<codecVars, icfgVars, pqcVars, wireVars, runVars, idsVars, tlsVars>>

\* The DATA frame with the chunk is written (line 474).
ExtWriteData(e) ==
    /\ srvUp
    /\ ext[e].rd = "write"
    /\ \E w \in SrvWriteOutcomes(ext[e].sess) :
         /\ SrvWritten(ext[e].sess, Frame(FrameTypeDATA, ext[e].sid, ext[e].rbuf), w)
         /\ ext' = [ext EXCEPT
                      ![e].rbuf = <<>>,
                      ![e].closeW = DataWritten(@, w),
                      ![e].rd = IF w = "err" THEN "defer"
                                ELSE ReaderTop(ext[e].sess, ext[e].sid)]
    /\ UNCHANGED <<ctlVars, sessVars, c2s, nExt, nLoc, loc, cliVars>>
    /\ UNCHANGED <<codecVars, icfgVars, pqcVars, wireVars, runVars, idsVars, tlsVars>>

\* The deferred function (lines 411-418): close and remove, if the entry
\* is still in the table.
ExtReaderDefer(e) ==
    /\ srvUp
    /\ ext[e].rd = "defer"
    /\ LET c == ext[e].sess
           s == ext[e].sid
       IN
       IF LoadConn(c, s) # 0
       THEN /\ ext' = [ext EXCEPT ![e].rd = "done", ![e].srv = "closed"]
            /\ ConnMap' = [ConnMap EXCEPT ![c][s] = 0]
       ELSE /\ ext' = [ext EXCEPT ![e].rd = "done"]
            /\ UNCHANGED ConnMap
    /\ UNCHANGED <<ctlVars, info, NextConnID, PublicListener, srvRd, acc>>
    /\ UNCHANGED <<chanVars, nExt, nLoc, loc, cliVars>>
    /\ UNCHANGED <<codecVars, icfgVars, pqcVars, wireVars, runVars, idsVars, tlsVars>>

(***************************************************************************)
(* The server process and the network.                                     *)
(***************************************************************************)
\* Server.Run starts: the control listener is bound.
ServerStart ==
    /\ ~srvUp
    /\ nStarts < MaxStarts
    /\ srvUp' = TRUE
    /\ nStarts' = nStarts + 1
    /\ run' = RunStarted(run.global)
    /\ UNCHANGED <<useTLS, ctl, nCtl, backlog, srvAcc, clients, nextClientID>>
    /\ UNCHANGED <<sessVars, chanVars, strmVars, cliVars>>
    /\ UNCHANGED <<codecVars, icfgVars, pqcVars, wireVars, idsVars, tlsVars>>

\* The server process stops: its tasks end, its memory is gone and every
\* socket it held is closed.
ServerKill ==
    /\ srvUp
    /\ EnvEvents < MaxEvents
    /\ srvUp' = FALSE
    /\ ctl' = [c \in Ctl |-> IF ctl[c].srv \in {"none", "closed"} THEN ctl[c]
                             ELSE [ctl[c] EXCEPT !.srv = "closed"]]
    /\ backlog' = <<>>
    /\ srvAcc' = AccIdle
    /\ clients' = {}
    /\ nextClientID' = 0
    /\ NextConnID' = [c \in Ctl |-> 0]
    /\ ConnMap' = [c \in Ctl |-> EmptyMap]
    /\ PublicListener' = [c \in Ctl |-> IF PublicListener[c] = "open" THEN "closed"
                                        ELSE PublicListener[c]]
    /\ srvRd' = [c \in Ctl |-> IF srvRd[c] = "run" THEN "done" ELSE srvRd[c]]
    /\ acc' = [c \in Ctl |-> IF acc[c].pc = "none" THEN acc[c]
                             ELSE [pc |-> "dead", e |-> 0]]
    /\ ext' = [e \in Ext |-> IF ext[e].srv = "none" THEN ext[e]
                             ELSE [ext[e] EXCEPT !.srv = "closed", !.rbuf = <<>>,
                                                 !.rd = IF @ = "none" THEN "none" ELSE "done"]]
    /\ c2s' = [c \in Ctl |-> <<>>]
    /\ run' = [RunIdle EXCEPT !.global = run.global]
    /\ UNCHANGED <<useTLS, nStarts, nCtl, info, s2c, nExt, nLoc, loc, cliVars>>
    /\ UNCHANGED <<codecVars, icfgVars, pqcVars, wireVars, idsVars, tlsVars>>

\* The path of an established control connection is cut: neither end hears
\* from the other again, and each reader fails after some prefix of what
\* was in flight.
ControlCut(c) ==
    /\ ctl[c].srv = "open"
    /\ ctl[c].cli = "open"
    /\ ctl[c].net = "up"
    /\ EnvEvents = 0
    /\ ctl' = [ctl EXCEPT ![c].net = "cut"]
    /\ UNCHANGED <<useTLS, srvUp, nStarts, nCtl, backlog, srvAcc, clients, nextClientID>>
    /\ UNCHANGED <<sessVars, chanVars, strmVars, cliVars>>
    /\ UNCHANGED <<codecVars, icfgVars, pqcVars, wireVars, runVars, idsVars, tlsVars>>

\* The remote user closes its end of an external connection.
UserClose(e) ==
    /\ ext[e].user = "open"
    /\ EnvEvents < MaxEvents
    /\ ext' = [ext EXCEPT ![e].user = "closed"]
    /\ UNCHANGED <<ctlVars, sessVars, chanVars, nExt, nLoc, loc, cliVars>>
    /\ UNCHANGED <<codecVars, icfgVars, pqcVars, wireVars, runVars, idsVars, tlsVars>>

(***************************************************************************)
(* Server: the global public listener (Server.publicListenAddr is set).    *)
(*   run.g.pc: "accept" -> "route" -> "lookup" -> "write" -> "store"       *)
(***************************************************************************)
\* acceptPublicConnections: listener.Accept returns an external connection.
GlobAccept ==
    /\ srvUp
    /\ run.g.pc = "accept"
    /\ run.publicListener = "open"
    /\ nExt < MaxConns
    /\ nExt' = nExt + 1
    /\ ext' = [ext EXCEPT ![nExt + 1] = [NoExt EXCEPT !.srv = "open", !.user = "open"]]
    /\ run' = [run EXCEPT !.g = [pc |-> "route", e |-> nExt + 1, c |-> 0]]
    /\ UNCHANGED <<ctlVars, sessVars, chanVars, nLoc, loc, cliVars>>
    /\ UNCHANGED <<codecVars, icfgVars, pqcVars, wireVars, idsVars, tlsVars>>

\* listener.Accept fails on the closed listener: the task returns when the
\* context is cancelled and tries again otherwise.
GlobAcceptFails ==
    /\ srvUp
    /\ run.g.pc = "accept"
    /\ run.publicListener = "closed"
    /\ run' = IF run.ctx = "done" THEN [run EXCEPT !.g.pc = "done"] ELSE run
    /\ UNCHANGED tunnelVars
    /\ UNCHANGED <<codecVars, icfgVars, pqcVars, wireVars, idsVars, tlsVars>>

\* Lines 632-646: the first session the iteration over Server.clients
\* yields (any of them: the order of a map iteration is not fixed) is the
\* target; without a session the socket is closed.
GlobRoute ==
    /\ srvUp
    /\ run.g.pc = "route"
    /\ MuFree
    /\ IF clients = {}
       THEN /\ ext' = [ext EXCEPT ![run.g.e].srv = "closed"]
            /\ run' = [run EXCEPT !.g = [pc |-> "accept", e |-> 0, c |-> 0]]
       ELSE \E c \in clients :
              /\ ext' = [ext EXCEPT ![run.g.e].sess = c]
              /\ run' = [run EXCEPT !.g.pc = "lookup", !.g.c = c]
    /\ UNCHANGED <<ctlVars, sessVars, chanVars, nExt, nLoc, loc, cliVars>>
    /\ UNCHANGED <<codecVars, icfgVars, pqcVars, wireVars, idsVars, tlsVars>>

\* handlePublicConnection called by acceptPublicConnections, lines 364-375.
GlobLookup ==
    /\ srvUp
    /\ run.g.pc = "lookup"
    /\ MuFree
    /\ LET e == run.g.e
           c == run.g.c
       IN
       IF c \in clients
       THEN /\ NextConnID' = [NextConnID EXCEPT ![c] = @ + 1]
            /\ ext' = [ext EXCEPT ![e].sid = NextConnID[c] + 1]
            /\ run' = [run EXCEPT !.g.pc = "write"]
       ELSE /\ ext' = [ext EXCEPT ![e].srv = "closed"]
            /\ run' = [run EXCEPT !.g = [pc |-> "accept", e |-> 0, c |-> 0]]
            /\ UNCHANGED NextConnID
    /\ UNCHANGED <<ctlVars, info, ConnMap, PublicListener, srvRd, acc, chanVars>>
    /\ UNCHANGED <<nExt, nLoc, loc, cliVars>>
    /\ UNCHANGED <<codecVars, icfgVars, pqcVars, wireVars, idsVars, tlsVars>>

\* handlePublicConnection called by acceptPublicConnections, lines 380-397.
GlobWriteNewConn ==
    /\ srvUp
    /\ run.g.pc = "write"
    /\ LET e == run.g.e
           c == run.g.c
       IN
       \E w \in SrvWriteOutcomes(c) :
         /\ SrvWritten(c, Frame(FrameTypeNEW_CONN, ext[e].sid, <<>>), w)
         /\ IF w = "err"
            THEN /\ ext' = [ext EXCEPT ![e].srv = "closed"]
                 /\ run' = [run EXCEPT !.g = [pc |-> "accept", e |-> 0, c |-> 0]]
            ELSE /\ ext' = [ext EXCEPT ![e].ann = TRUE]
                 /\ run' = [run EXCEPT !.g.pc = "store"]
    /\ UNCHANGED <<ctlVars, sessVars, c2s, nExt, nLoc, loc, cliVars>>
    /\ UNCHANGED <<codecVars, icfgVars, pqcVars, wireVars, idsVars, tlsVars>>

\* handlePublicConnection called by acceptPublicConnections, lines 401-410.
GlobStore ==
    /\ srvUp
    /\ run.g.pc = "store"
    /\ LET e == run.g.e
           c == run.g.c
       IN
       /\ ConnMap' = [ConnMap EXCEPT ![c][ext[e].sid] = e]
       /\ ext' = [ext EXCEPT ![e].rd = IF run.ctx = "done" THEN "defer" ELSE "read"]
    /\ run' = [run EXCEPT !.g = [pc |-> "accept", e |-> 0, c |-> 0]]
    /\ UNCHANGED <<ctlVars, info, NextConnID, PublicListener, srvRd, acc, chanVars>>
    /\ UNCHANGED <<nExt, nLoc, loc, cliVars>>
    /\ UNCHANGED <<codecVars, icfgVars, pqcVars, wireVars, idsVars, tlsVars>>

(***************************************************************************)
(* Server: shutdown (Run lines 292-297, cleanup, the deferred closes).     *)
(***************************************************************************)
\* The context of Run is cancelled (SIGINT or SIGTERM in cmd/server).
RunCancel ==
    /\ srvUp
    /\ Ends < MaxEnds
    /\ run.ctx = "live"
    /\ run' = [run EXCEPT !.ctx = "done"]
    /\ UNCHANGED tunnelVars
    /\ UNCHANGED <<codecVars, icfgVars, pqcVars, wireVars, idsVars, tlsVars>>

\* Run leaves <-ctx.Done() and calls cleanup, which takes clientsMu and
\* ranges over the registry.  With a session in it, it calls
\* unregisterClient, whose first statement takes clientsMu again: a
\* sync.RWMutex is not reentrant, so the call waits for the lock its own
\* caller holds.  With none, it resets the registry and releases the lock.
RunCleanup ==
    /\ srvUp
    /\ run.pc = "wait"
    /\ run.ctx = "done"
    /\ MuFree
    /\ run' = IF clients = {} THEN [run EXCEPT !.pc = "closing"]
              ELSE [run EXCEPT !.pc = "unreg", !.mu = "cleanup"]
    /\ UNCHANGED tunnelVars
    /\ UNCHANGED <<codecVars, icfgVars, pqcVars, wireVars, idsVars, tlsVars>>

\* cleanup, lines 736-741: the global public listener is closed.
RunCloseGlobal ==
    /\ srvUp
    /\ run.pc = "closing"
    /\ run' = [run EXCEPT !.pc = "deferred",
                          !.publicListener = IF @ = "open" THEN "closed" ELSE @]
    /\ UNCHANGED tunnelVars
    /\ UNCHANGED <<codecVars, icfgVars, pqcVars, wireVars, idsVars, tlsVars>>

\* Run returns ctx.Err(): its deferred calls close the public and the
\* control listener, and with it the connections not yet accepted.
RunReturn ==
    /\ srvUp
    /\ run.pc = "deferred"
    /\ run' = [run EXCEPT !.pc = "ret", !.controlListener = "closed",
                          !.publicListener = IF @ = "open" THEN "closed" ELSE @]
    /\ ctl' = [c \in Ctl |-> IF ctl[c].srv = "backlog"
                             THEN [ctl[c] EXCEPT !.srv = "closed"] ELSE ctl[c]]
    /\ backlog' = <<>>
    /\ UNCHANGED <<useTLS, srvUp, nStarts, nCtl, srvAcc, clients, nextClientID>>
    /\ UNCHANGED <<sessVars, chanVars, strmVars, cliVars>>
    /\ UNCHANGED <<codecVars, icfgVars, pqcVars, wireVars, idsVars, tlsVars>>

\* controlListener.Accept fails on the closed listener and the context is
\* cancelled: the accept loop returns (Run lines 274-278).
SrvAcceptStops ==
    /\ srvUp
    /\ srvAcc.pc = "accept"
    /\ run.controlListener = "closed"
    /\ srvAcc' = [pc |-> "stopped", c |-> 0, i |-> 0]
    /\ UNCHANGED <<useTLS, srvUp, nStarts, ctl, nCtl, backlog, clients, nextClientID>>
    /\ UNCHANGED <<sessVars, chanVars, strmVars, cliVars>>
    /\ UNCHANGED <<codecVars, icfgVars, pqcVars, wireVars, runVars, idsVars, tlsVars>>

(***************************************************************************)
(* Remote ends of control connections other than the tunnel client: they   *)
(* connect, send INIT frames of their choice, and close.                   *)
(***************************************************************************)
\* The payloads of the INIT frames: no port, a port, and no colon at all.
InitPayloads ==
    { EncodeInitConfig([ClientConfig EXCEPT !.RemotePort = p]) : p \in {0, 8080} }
    \cup { <<ChA>> }

RemoteConnects ==
    /\ srvUp
    /\ run.controlListener = "open"
    /\ cli.pc = "off"
    /\ nCtl < MaxCtl
    /\ ctl' = [ctl EXCEPT ![nCtl + 1] = [NoCtl EXCEPT !.srv = "backlog", !.cli = "open"]]
    /\ nCtl' = nCtl + 1
    /\ backlog' = Append(backlog, nCtl + 1)
    /\ UNCHANGED <<useTLS, srvUp, nStarts, srvAcc, clients, nextClientID>>
    /\ UNCHANGED <<sessVars, chanVars, strmVars, cliVars>>
    /\ UNCHANGED <<codecVars, icfgVars, pqcVars, wireVars, runVars, idsVars, tlsVars>>

\* A remote end writes its next INIT frame once the server has taken the
\* one before.
RemoteSendInit(c) ==
    /\ cli.pc = "off"
    /\ ctl[c].cli = "open"
    /\ ctl[c].srv = "open"
    /\ c2s[c] = <<>>
    /\ ctl[c].inits < MaxInits
    /\ \E pl \in InitPayloads :
         c2s' = [c2s EXCEPT ![c] = Append(@, Frame(FrameTypeINIT, 0, pl))]
    /\ ctl' = [ctl EXCEPT ![c].inits = @ + 1]
    /\ UNCHANGED <<useTLS, srvUp, nStarts, nCtl, backlog, srvAcc, clients, nextClientID>>
    /\ UNCHANGED <<sessVars, s2c, strmVars, cliVars>>
    /\ UNCHANGED <<codecVars, icfgVars, pqcVars, wireVars, runVars, idsVars, tlsVars>>

RemoteCloses(c) ==
    /\ cli.pc = "off"
    /\ Ends < MaxEnds
    /\ ctl[c].cli = "open"
    /\ ctl' = [ctl EXCEPT ![c].cli = "closed"]
    /\ UNCHANGED <<useTLS, srvUp, nStarts, nCtl, backlog, srvAcc, clients, nextClientID>>
    /\ UNCHANGED <<sessVars, chanVars, strmVars, cliVars>>
    /\ UNCHANGED <<codecVars, icfgVars, pqcVars, wireVars, runVars, idsVars, tlsVars>>

(***************************************************************************)
(* Client: Run, connectToServer, sendInitConfig, handleConnection.         *)
(*   cli.pc: "dial" -> "init" -> "loop" -> "sleep" -> "dial"               *)
(***************************************************************************)
FrameChanCap == 10

\* controlConn.Write(frameData) on the client's current control connection.
CliWriteOutcomes ==
    IF cli.controlConn = 0 THEN {"skip"}
    ELSE WriteOutcomes(ctl[cli.controlConn].cli,
                       ctl[cli.controlConn].srv = "closed" \/ ctl[cli.controlConn].net = "cut")

CliWritten(f, w) ==
    c2s' = IF w = "ok" THEN [c2s EXCEPT ![cli.controlConn] = Append(@, f)] ELSE c2s

\* Client.sendCloseFrame(connID): nothing without a control connection; a
\* failed write is only logged.
CliSendClose(sid, w) ==
    IF w = "skip" THEN UNCHANGED c2s
    ELSE CliWritten(Frame(FrameTypeCLOSE, sid, <<>>), w)

\* The record of the frames the client has written for the stream of local
\* socket l on that stream's own control connection, after a CLOSE write
\* and after a DATA write with outcome w on the current connection.
CliCloseWritten(l, w) ==
    IF cli.controlConn = loc[l].ctlc THEN CloseWritten(loc[l].closeW, w) ELSE loc[l].closeW
CliDataWritten(l, w) ==
    IF cli.controlConn = loc[l].ctlc THEN DataWritten(loc[l].closeW, w) ELSE loc[l].closeW

\* localConn.Write(payload) on local socket l.
LocWriteOutcomes(l) == WriteOutcomes(loc[l].cli, loc[l].svc = "closed")

\* connectToServer over plain TCP: the dial succeeds when a server listens
\* on the control address, and fails otherwise (Run then sleeps).
ClientDial ==
    /\ cli.pc = "dial"
    /\ ~srvUp \/ nCtl < MaxCtl
    /\ IF srvUp
       THEN /\ nCtl' = nCtl + 1
            /\ ctl' = [ctl EXCEPT ![nCtl + 1] =
                          [NoCtl EXCEPT !.srv = "backlog", !.cli = "open"]]
            /\ backlog' = Append(backlog, nCtl + 1)
            /\ cli' = [pc |-> "init", controlConn |-> nCtl + 1]
       ELSE /\ cli' = [cli EXCEPT !.pc = "sleep"]
            /\ UNCHANGED <<nCtl, ctl, backlog>>
    /\ UNCHANGED <<useTLS, srvUp, nStarts, srvAcc, clients, nextClientID>>
    /\ UNCHANGED <<sessVars, chanVars, strmVars, connMap>>
    /\ UNCHANGED <<codecVars, icfgVars, pqcVars, wireVars, runVars, idsVars, tlsVars>>

\* The reconnect delay of Run has passed.
ClientWake ==
    /\ cli.pc = "sleep"
    /\ cli' = [cli EXCEPT !.pc = "dial"]
    /\ UNCHANGED <<ctlVars, sessVars, chanVars, strmVars, connMap>>
    /\ UNCHANGED <<codecVars, icfgVars, pqcVars, wireVars, runVars, idsVars, tlsVars>>

\* sendInitConfig, then handleConnection starts; a failed write closes the
\* control connection and Run dials again at once.
ClientSendInit ==
    /\ cli.pc = "init"
    /\ \E w \in CliWriteOutcomes :
         /\ CliWritten(Frame(FrameTypeINIT, 0, EncodeInitConfig(ClientConfig)), w)
         /\ IF w = "err"
            THEN /\ ctl' = [ctl EXCEPT ![cli.controlConn].cli = "closed"]
                 /\ cli' = [pc |-> "dial", controlConn |-> 0]
            ELSE /\ cli' = [cli EXCEPT !.pc = "loop"]
                 /\ UNCHANGED ctl
    /\ UNCHANGED <<useTLS, srvUp, nStarts, nCtl, backlog, srvAcc, clients, nextClientID>>
    /\ UNCHANGED <<sessVars, s2c, strmVars, connMap>>
    /\ UNCHANGED <<codecVars, icfgVars, pqcVars, wireVars, runVars, idsVars, tlsVars>>

\* The next frame the main loop of handleConnection takes from frameChan.
\* The reader goroutine moves every frame from the connection to frameChan
\* unchanged and in order, so the frames written by the server and not yet
\* handled form one queue.
NextFrame == Head(s2c[cli.controlConn])

FramePending(t) ==
    /\ cli.pc = "loop"
    /\ s2c[cli.controlConn] # <<>>
    /\ NextFrame.Type = t

\* The reader's DecodeFrame fails and the main loop takes the error from
\* errChan: handleConnection returns it, Run closes the control connection
\* and sleeps.  The select may take the error while frames wait in
\* frameChan: those are never handled.
ClientLoopError ==
    /\ cli.pc = "loop"
    /\ ctl[cli.controlConn].srv = "closed" \/ ctl[cli.controlConn].net = "cut"
    /\ Len(s2c[cli.controlConn]) <= FrameChanCap
    /\ s2c' = [s2c EXCEPT ![cli.controlConn] = <<>>]
    /\ ctl' = [ctl EXCEPT ![cli.controlConn].cli = "closed"]
    /\ cli' = [pc |-> "sleep", controlConn |-> 0]
    /\ UNCHANGED <<useTLS, srvUp, nStarts, nCtl, backlog, srvAcc, clients, nextClientID>>
    /\ UNCHANGED <<sessVars, c2s, strmVars, connMap>>
    /\ UNCHANGED <<codecVars, icfgVars, pqcVars, wireVars, runVars, idsVars, tlsVars>>

\* net.DialTimeout to the local service succeeds or fails.
DialOutcomes == IF EnvEvents < MaxEvents THEN BOOLEAN ELSE {TRUE}

\* handleNewConn: dial the local service; on failure send CLOSE, on
\* success store the socket under the frame's id and start its forwarder.
ClientHandleNewConn ==
    /\ FramePending(FrameTypeNEW_CONN)
    /\ nLoc < MaxConns
    /\ s2c' = [s2c EXCEPT ![cli.controlConn] = Tail(@)]
    /\ nLoc' = nLoc + 1
    /\ LET f == NextFrame
           l == nLoc + 1
       IN
       \E ok \in DialOutcomes :
         IF ok
         THEN /\ loc' = [loc EXCEPT ![l] =
                           [NoLoc EXCEPT !.ctlc = cli.controlConn, !.sid = f.ConnID,
                                         !.cli = "open", !.svc = "open",
                                         !.fw = "read", !.dial = "ok"]]
              /\ connMap' = [connMap EXCEPT ![f.ConnID] = l]
              /\ UNCHANGED c2s
         ELSE /\ \E w \in CliWriteOutcomes :
                   /\ CliSendClose(f.ConnID, w)
                   /\ loc' = [loc EXCEPT ![l] =
                                [NoLoc EXCEPT !.ctlc = cli.controlConn, !.sid = f.ConnID,
                                              !.dial = "failed",
                                              !.closeW = CloseWritten(0, w)]]
              /\ UNCHANGED connMap
    /\ UNCHANGED <<ctlVars, sessVars, nExt, ext, cli>>
    /\ UNCHANGED <<codecVars, icfgVars, pqcVars, wireVars, runVars, idsVars, tlsVars>>

\* Client.connMap.Load(connID).
LoadLocal(sid) == IF sid \in Sids THEN connMap[sid] ELSE 0

\* A handleDataFrame that answers a frame of an unknown id with CLOSE.
ClientHandleDataAnswers ==
    /\ FramePending(FrameTypeDATA)
    /\ s2c' = [s2c EXCEPT ![cli.controlConn] = Tail(@)]
    /\ LET f == NextFrame
           l == LoadLocal(f.ConnID)
       IN
       IF l = 0
       THEN /\ \E v \in CliWriteOutcomes : CliSendClose(f.ConnID, v)
            /\ UNCHANGED <<loc, connMap>>
       ELSE \E w \in LocWriteOutcomes(l) :
              IF w # "err" \/ Len(f.Payload) = 0
              THEN /\ loc' = [loc EXCEPT ![l].out = @ \o f.Payload]
                   /\ UNCHANGED <<connMap, c2s>>
              ELSE /\ connMap' = [connMap EXCEPT ![f.ConnID] = 0]
                   /\ \E v \in CliWriteOutcomes :
                        /\ CliSendClose(f.ConnID, v)
                        /\ loc' = [loc EXCEPT ![l].cli = "closed",
                                              ![l].closeW = CliCloseWritten(l, v)]
    /\ UNCHANGED <<ctlVars, sessVars, nExt, ext, nLoc, cli>>
    /\ UNCHANGED <<codecVars, icfgVars, pqcVars, wireVars, runVars, idsVars, tlsVars>>

\* handleDataFrame: write the payload to the local socket stored under the
\* frame's id; an unknown id is logged and the frame dropped; a failed
\* write closes the socket, removes the entry and sends CLOSE.
ClientHandleData ==
    /\ FramePending(FrameTypeDATA)
    /\ s2c' = [s2c EXCEPT ![cli.controlConn] = Tail(@)]
    /\ LET f == NextFrame
           l == LoadLocal(f.ConnID)
       IN
       IF l = 0 \/ Len(f.Payload) = 0
       THEN UNCHANGED <<loc, connMap, c2s>>
       ELSE \E w \in LocWriteOutcomes(l) :
              IF w # "err"
              THEN /\ loc' = [loc EXCEPT ![l].out = @ \o f.Payload]
                   /\ UNCHANGED <<connMap, c2s>>
              ELSE /\ connMap' = [connMap EXCEPT ![f.ConnID] = 0]
                   /\ \E v \in CliWriteOutcomes :
                        /\ CliSendClose(f.ConnID, v)
                        /\ loc' = [loc EXCEPT ![l].cli = "closed",
                                              ![l].closeW = CliCloseWritten(l, v)]
    /\ UNCHANGED <<ctlVars, sessVars, nExt, ext, nLoc, cli>>
    /\ UNCHANGED <<codecVars, icfgVars, pqcVars, wireVars, runVars, idsVars, tlsVars>>

\* A handleCloseFrame that closes and removes without the echo.
ClientHandleCloseSilent ==
    /\ FramePending(FrameTypeCLOSE)
    /\ s2c' = [s2c EXCEPT ![cli.controlConn] = Tail(@)]
    /\ LET f == NextFrame
           l == LoadLocal(f.ConnID)
       IN
       IF l = 0
       THEN UNCHANGED <<loc, connMap>>
       ELSE /\ connMap' = [connMap EXCEPT ![f.ConnID] = 0]
            /\ loc' = [loc EXCEPT ![l].cli = "closed"]
    /\ UNCHANGED <<ctlVars, sessVars, nExt, ext, nLoc, cli, c2s>>
    /\ UNCHANGED <<codecVars, icfgVars, pqcVars, wireVars, runVars, idsVars, tlsVars>>

\* handleCloseFrame: remove the entry, close its socket and echo CLOSE; an
\* unknown id is ignored.
ClientHandleClose ==
    /\ FramePending(FrameTypeCLOSE)
    /\ s2c' = [s2c EXCEPT ![cli.controlConn] = Tail(@)]
    /\ LET f == NextFrame
           l == LoadLocal(f.ConnID)
       IN
       IF l = 0
       THEN UNCHANGED <<loc, connMap, c2s>>
       ELSE /\ connMap' = [connMap EXCEPT ![f.ConnID] = 0]
            /\ \E w \in CliWriteOutcomes :
                 /\ CliSendClose(f.ConnID, w)
                 /\ loc' = [loc EXCEPT ![l].cli = "closed",
                                       ![l].closeW = CliCloseWritten(l, w)]
    /\ UNCHANGED <<ctlVars, sessVars, nExt, ext, nLoc, cli>>
    /\ UNCHANGED <<codecVars, icfgVars, pqcVars, wireVars, runVars, idsVars, tlsVars>>

(***************************************************************************)
(* Client: forwardLocalToServer, the reader task of a local socket.        *)
(*   loc[l].fw: "read" -> "write" -> "read" ..., then "defer" -> "done"    *)
(***************************************************************************)
\* Read returns the service's next chunk.
FwReadData(l) ==
    /\ loc[l].fw = "read"
    /\ loc[l].cli = "open"
    /\ loc[l].svc = "open"
    /\ loc[l].sent < MaxChunks
    /\ loc' = [loc EXCEPT ![l].sent = @ + 1, ![l].fw = "write",
                          ![l].fbuf = <<SvcTok(l, loc[l].sent + 1)>>]
    /\ UNCHANGED <<ctlVars, sessVars, chanVars, nExt, ext, nLoc, cliVars>>
    /\ UNCHANGED <<codecVars, icfgVars, pqcVars, wireVars, runVars, idsVars, tlsVars>>

\* Read fails (EOF from the service, or the socket was closed under the
\* task): CLOSE is sent on the current control connection.
FwReadEnds(l) ==
    /\ loc[l].fw = "read"
    /\ loc[l].cli # "open" \/ loc[l].svc = "closed"
    /\ \E w \in CliWriteOutcomes :
         /\ CliSendClose(loc[l].sid, w)
         /\ loc' = [loc EXCEPT ![l].fw = "defer", ![l].closeW = CliCloseWritten(l, w)]
    /\ UNCHANGED <<ctlVars, sessVars, s2c, nExt, ext, nLoc, cliVars>>
    /\ UNCHANGED <<codecVars, icfgVars, pqcVars, wireVars, runVars, idsVars, tlsVars>>

\* The DATA frame with the chunk is written on the current control
\* connection; without one, or when the write fails, the task returns.
FwWrite(l) ==
    /\ loc[l].fw = "write"
    /\ \E w \in CliWriteOutcomes :
         /\ IF w = "skip" THEN UNCHANGED c2s
            ELSE CliWritten(Frame(FrameTypeDATA, loc[l].sid, loc[l].fbuf), w)
         /\ loc' = [loc EXCEPT ![l].fbuf = <<>>,
                               ![l].closeW = CliDataWritten(l, w),
                               ![l].fw = IF w \in {"skip", "err"} THEN "defer" ELSE "read"]
    /\ UNCHANGED <<ctlVars, sessVars, s2c, nExt, ext, nLoc, cliVars>>
    /\ UNCHANGED <<codecVars, icfgVars, pqcVars, wireVars, runVars, idsVars, tlsVars>>

\* The deferred function: close the socket and delete the id's entry,
\* whatever it holds.
FwDefer(l) ==
    /\ loc[l].fw = "defer"
    /\ loc' = [loc EXCEPT ![l].fw = "done", ![l].cli = "closed"]
    /\ connMap' = [connMap EXCEPT ![loc[l].sid] = 0]
    /\ UNCHANGED <<ctlVars, sessVars, chanVars, nExt, ext, nLoc, cli>>
    /\ UNCHANGED <<codecVars, icfgVars, pqcVars, wireVars, runVars, idsVars, tlsVars>>

\* The local service closes its end of a local connection.
ServiceClose(l) ==
    /\ loc[l].svc = "open"
    /\ EnvEvents < MaxEvents
    /\ loc' = [loc EXCEPT ![l].svc = "closed"]
    /\ UNCHANGED <<ctlVars, sessVars, chanVars, nExt, ext, nLoc, cliVars>>
    /\ UNCHANGED <<codecVars, icfgVars, pqcVars, wireVars, runVars, idsVars, tlsVars>>

(***************************************************************************)
(* PQCDialer.Dial, call by call, against a server that makes the library   *)
(* return what `peer` says.                                                *)
(***************************************************************************)
DialStart ==
    /\ dialer.stage = "idle"
    /\ nCtl = 0                   \* this process dials; it does not listen
    /\ \E p \in Peers :
         LET st == HandshakeSetup(p) IN
         dialer' = IF st.err # "nil"
                   THEN [stage |-> "failed", peer |-> p, i |-> 0, ssl |-> st.ssl,
                         sock |-> st.sock, err |-> st.err]
                   ELSE [stage |-> "handshake", peer |-> p, i |-> 1, ssl |-> "live",
                         sock |-> "open", err |-> "nil"]
    /\ UNCHANGED <<codecVars, icfgVars, wireVars, runVars, tunnelVars, idsVars, tlsVars>>

\* One call of SSL_connect inside PQCDialer.Dial.
DialHandshake ==
    /\ dialer.stage = "handshake"
    /\ LET r == HandshakeIteration(dialer.peer, dialer.i) IN
       dialer' = IF ~r.done THEN [dialer EXCEPT !.i = dialer.i + 1]
                 ELSE [dialer EXCEPT !.stage = IF r.err = "nil" THEN "returned" ELSE "failed",
                                     !.ssl = r.ssl, !.sock = r.sock, !.err = r.err]
    /\ UNCHANGED <<codecVars, icfgVars, wireVars, runVars, tunnelVars, idsVars, tlsVars>>

(***************************************************************************)
(* One control connection at the level of bytes.  Every writer of the      *)
(* repository (the acceptor's NEW_CONN, a reader's DATA, sendCloseFrame,   *)
(* sendInitConfig) encodes its frame into one buffer with EncodeFrame and  *)
(* hands the buffer to one conn.Write call.  Write holds the connection's  *)
(* write lock for the whole call (PQCConn.mu for a TLS connection; a plain *)
(* TCP connection serialises concurrent Write calls in the same way) and   *)
(* passes the buffer to the transport in one or more pieces.               *)
(*   wire.task[t].pc: "idle" -> "lock" -> "send" -> "idle"                 *)
(***************************************************************************)
WTasks == 1..MaxWriters

\* The frames the tasks write: NEW_CONN, DATA of two streams, CLOSE.
WireFrames ==
    { [Type |-> FrameTypeNEW_CONN, ConnID |-> <<0, 1>>, Payload |-> <<>>],
      [Type |-> FrameTypeDATA,     ConnID |-> <<0, 1>>, Payload |-> <<FrameTypeCLOSE>>],
      [Type |-> FrameTypeDATA,     ConnID |-> <<0, 2>>, Payload |-> <<255, 0>>],
      [Type |-> FrameTypeCLOSE,    ConnID |-> <<0, 2>>, Payload |-> <<>>] }

WTaskIdle == [pc |-> "idle", buf |-> <<>>, off |-> 0, n |-> 0]

\* bytes: what the connection has been given so far; lock: the task inside
\* Write (0: none); log: the frames whose Write call has begun, in order;
\* broken: a Write failed part way and the connection is dead.
WireIdle == [bytes |-> <<>>, lock |-> 0, log |-> <<>>, broken |-> FALSE,
             task |-> [t \in WTasks |-> WTaskIdle]]

\* Write entered without waiting for the task inside it.
WriteLockIgnored(t) == TRUE

\* c.mu.Lock() in PQCConn.Write: no other task is inside Write.
WriteLockFree(t) == wire.lock = 0

\* frameData, err := EncodeFrame(frame), then the call conn.Write(frameData).
WireCall(t) ==
    /\ wire.task[t].pc = "idle"
    /\ wire.task[t].n < MaxWrites
    /\ \E f \in WireFrames :
         wire' = [wire EXCEPT !.task[t] = [pc |-> "lock", buf |-> EncodeFrame(f),
                                            off |-> 0, n |-> wire.task[t].n + 1]]
    /\ UNCHANGED <<codecVars, icfgVars, pqcVars, runVars, tunnelVars, idsVars, tlsVars>>

\* Write takes the lock; on a dead connection it returns an error at once.
WireLock(t) ==
    /\ wire.task[t].pc = "lock"
    /\ WriteLockFree(t)
    /\ wire' = IF wire.broken
               THEN [wire EXCEPT !.task[t].pc = "idle", !.task[t].buf = <<>>]
               ELSE [wire EXCEPT !.lock = t, !.task[t].pc = "send",
                                 !.log = Append(@, DecodeFrame(wire.task[t].buf).frame)]
    /\ UNCHANGED <<codecVars, icfgVars, pqcVars, runVars, tunnelVars, idsVars, tlsVars>>

\* The transport takes the next k bytes of the buffer; with the last byte
\* Write returns and releases the lock.
WireSend(t) ==
    /\ wire.task[t].pc = "send"
    /\ LET w == wire.task[t] IN
       \E k \in 1..(Len(w.buf) - w.off) :
         wire' = [wire EXCEPT
                    !.bytes = @ \o SubSeq(w.buf, w.off + 1, w.off + k),
                    !.task[t] = IF w.off + k = Len(w.buf)
                                THEN [w EXCEPT !.pc = "idle", !.buf = <<>>, !.off = 0]
                                ELSE [w EXCEPT !.off = w.off + k],
                    !.lock = IF w.off + k = Len(w.buf) THEN 0 ELSE @]
    /\ UNCHANGED <<codecVars, icfgVars, pqcVars, runVars, tunnelVars, idsVars, tlsVars>>

\* The transport fails before the buffer is out: Write returns an error,
\* and nothing more is ever written to the connection.
WireFail(t) ==
    /\ wire.task[t].pc = "send"
    /\ wire' = [wire EXCEPT !.broken = TRUE, !.lock = 0,
                            !.task[t] = [wire.task[t] EXCEPT !.pc = "idle"]]
    /\ UNCHANGED <<codecVars, icfgVars, pqcVars, runVars, tunnelVars, idsVars, tlsVars>>

(***************************************************************************)
(* Stream ids at their real width.  ClientInfo.NextConnID is a uint32,     *)
(* kept as two 16-bit limbs <<hi, lo>> like the ids of the codec.          *)
(*   ids[c].reg    the session is registered                               *)
(*   ids[c].next   ClientInfo.NextConnID                                   *)
(*   ids[c].given  the ids handed out since the state the run started in   *)
(*   ids[c].table  the keys of ClientInfo.ConnMap                          *)
(*   ids[c].wrapped  the counter has passed 2^32 - 1                       *)
(***************************************************************************)
Uint32Zero == <<0, 0>>
Uint32Max  == <<65535, 65535>>

\* An addition that drops the carry out of the low limb.
AddUint32NoCarry(v, d) == << v[1], (v[2] + d) % 65536 >>

\* atomic.AddUint32(&v, d) for a small d: the sum modulo 2^32.
AddUint32(v, d) ==
    << (v[1] + (v[2] + d) \div 65536) % 65536, (v[2] + d) % 65536 >>

NoIds == [reg |-> FALSE, next |-> Uint32Zero, given |-> <<>>, table |-> {},
          wrapped |-> FALSE]

IdsIdle == [c \in Ctl |-> NoIds]

\* The counter values of the sessions a run starts with: sessions that
\* have handed out 65534 and 2^32 - 3 ids, whose streams are closed.
IdStarts == {<<0, 65534>>, <<65535, 65533>>}

\* registerClient: a new ClientInfo with NextConnID 0 and an empty ConnMap.
IdsRegister(c) ==
    /\ ~ids[c].reg
    /\ ids' = [ids EXCEPT ![c] = [NoIds EXCEPT !.reg = TRUE]]
    /\ UNCHANGED <<codecVars, icfgVars, pqcVars, wireVars, runVars, tunnelVars, tlsVars>>

\* handlePublicConnection: connID := atomic.AddUint32(&NextConnID, 1), and
\* after NEW_CONN ConnMap.Store(connID, publicConn).
IdsAllocate(c) ==
    /\ ids[c].reg
    /\ Len(ids[c].given) < MaxAllocs
    /\ LET connID == AddUint32(ids[c].next, 1) IN
       ids' = [ids EXCEPT ![c].next = connID,
                          ![c].given = Append(@, connID),
                          ![c].table = @ \cup {connID},
                          ![c].wrapped = @ \/ ids[c].next = Uint32Max]
    /\ UNCHANGED <<codecVars, icfgVars, pqcVars, wireVars, runVars, tunnelVars, tlsVars>>

\* A stream ends: ConnMap.Delete(connID) (reader's deferred function,
\* handleCloseFrame, handleDataFrame).
IdsDelete(c) ==
    /\ \E id \in ids[c].table : ids' = [ids EXCEPT ![c].table = @ \ {id}]
    /\ UNCHANGED <<codecVars, icfgVars, pqcVars, wireVars, runVars, tunnelVars, tlsVars>>

(***************************************************************************)
(* Specifications.                                                         *)
(***************************************************************************)
\* Everything but the tunnel is at rest.
(***************************************************************************)
(* The TLS layer.                                                          *)
(***************************************************************************)
\* sslctx: one call of NewPQCListenerOpenSSL ("server") or NewPQCDialerOpenSSL
\* ("client").  given: which of the three files the caller names; ctx: the
\* SSL_CTX ("nil", "live", "freed"); vmin, vmax: what the two version calls
\* returned; groups, sigalgs: the list has been applied; ret: what the
\* constructor returned ("none" yet, "object", "error").
CtxIdle == [pc |-> "idle", role |-> "none",
            given |-> [cert |-> FALSE, key |-> FALSE, ca |-> FALSE],
            ctx |-> "nil", vmin |-> FALSE, vmax |-> FALSE,
            groups |-> FALSE, sigalgs |-> FALSE, ret |-> "none"]

\* The files a caller can name: the listener always has a certificate and a
\* key, the dialer may leave any of the three out.
CtxGiven(role) ==
    IF role = "server"
    THEN {[cert |-> TRUE, key |-> TRUE, ca |-> a] : a \in BOOLEAN}
    ELSE [cert : BOOLEAN, key : BOOLEAN, ca : BOOLEAN]

\* The constructor is called; os.Stat finds every named file, or misses one
\* and the constructor returns an error before any library call.
CtxCall(role) ==
    /\ sslctx.pc = "idle"
    /\ \E g \in CtxGiven(role) : \E found \in BOOLEAN :
         sslctx' = IF found \/ g = [cert |-> FALSE, key |-> FALSE, ca |-> FALSE]
                   THEN [CtxIdle EXCEPT !.pc = "new", !.role = role, !.given = g]
                   ELSE [CtxIdle EXCEPT !.pc = "done", !.role = role, !.given = g,
                                        !.ret = "error"]
    /\ UNCHANGED <<pconn, tunnelVars>>
    /\ UNCHANGED <<codecVars, icfgVars, pqcVars, wireVars, runVars, idsVars>>

\* create_*_ctx: SSL_CTX_new, then SSL_CTX_set_min_proto_version and
\* SSL_CTX_set_max_proto_version, whose results are not looked at.
CtxNew ==
    /\ sslctx.pc = "new"
    /\ \E ok \in BOOLEAN :
         IF ~ok THEN sslctx' = [sslctx EXCEPT !.pc = "null"]
         ELSE \E a, b \in BOOLEAN :
                sslctx' = [sslctx EXCEPT !.pc = "groups", !.ctx = "live",
                                         !.vmin = a, !.vmax = b]
    /\ UNCHANGED <<pconn, tunnelVars>>
    /\ UNCHANGED <<codecVars, icfgVars, pqcVars, wireVars, runVars, idsVars>>

\* SSL_CTX_set1_groups_list with the ML-KEM groups: on failure the context
\* is freed and NULL returned.
CtxSetGroups ==
    /\ sslctx.pc = "groups"
    /\ \E ok \in BOOLEAN :
         sslctx' = IF ok THEN [sslctx EXCEPT !.pc = "sigalgs", !.groups = TRUE]
                   ELSE [sslctx EXCEPT !.pc = "null", !.ctx = "freed"]
    /\ UNCHANGED <<pconn, tunnelVars>>
    /\ UNCHANGED <<codecVars, icfgVars, pqcVars, wireVars, runVars, idsVars>>

\* SSL_CTX_set1_sigalgs_list with the ML-DSA algorithms: likewise.
CtxSetSigalgs ==
    /\ sslctx.pc = "sigalgs"
    /\ \E ok \in BOOLEAN :
         sslctx' = IF ok THEN [sslctx EXCEPT !.pc = "cert", !.sigalgs = TRUE]
                   ELSE [sslctx EXCEPT !.pc = "null", !.ctx = "freed"]
    /\ UNCHANGED <<pconn, tunnelVars>>
    /\ UNCHANGED <<codecVars, icfgVars, pqcVars, wireVars, runVars, idsVars>>

\* The calls that load the certificate, the key, check the pair and load
\* the CA file, in this order.
CtxStages == <<"cert", "key", "check", "ca", "made">>

\* The call of stage i is made: always by create_server_ctx (but for the CA
\* file), by create_client_ctx only for the files that are named.
CtxCalls(i) ==
    CASE CtxStages[i] = "cert"  -> sslctx.given.cert
      [] CtxStages[i] = "key"   -> sslctx.given.key
      [] CtxStages[i] = "check" -> sslctx.given.cert /\ sslctx.given.key
      [] OTHER                  -> sslctx.given.ca

\* One of these calls, or its being skipped; on failure the context is
\* freed and NULL returned.
CtxLoad(i) ==
    /\ sslctx.pc = CtxStages[i]
    /\ \E ok \in BOOLEAN :
         sslctx' = IF ok \/ ~CtxCalls(i) THEN [sslctx EXCEPT !.pc = CtxStages[i + 1]]
                   ELSE [sslctx EXCEPT !.pc = "null", !.ctx = "freed"]
    /\ UNCHANGED <<pconn, tunnelVars>>
    /\ UNCHANGED <<codecVars, icfgVars, pqcVars, wireVars, runVars, idsVars>>

\* The constructor returns: an error for a NULL context, the listener or
\* dialer otherwise.
CtxReturn ==
    /\ sslctx.pc \in {"null", "made"}
    /\ sslctx' = [sslctx EXCEPT !.pc = "done",
                                !.ret = IF sslctx.pc = "made" THEN "object" ELSE "error"]
    /\ UNCHANGED <<pconn, tunnelVars>>
    /\ UNCHANGED <<codecVars, icfgVars, pqcVars, wireVars, runVars, idsVars>>

\* pconn: one PQCConn and the tasks that call its methods.  ssl: the field
\* c.ssl ("live", or "nil" once Close has freed the session); mu: the task
\* that holds c.mu (0: free); t[k]: task k's call: op, len(b), its position
\* ("idle", "lock": waiting in c.mu.Lock, "call": in the library call with
\* c.mu held), h: the handle it passes to the library, n and err: what the
\* last call returned.
PTasks == 1..MaxTasks

PTaskIdle == [op |-> "none", len |-> 0, pc |-> "idle", h |-> "none", n |-> 0, err |-> "none"]

PConnIdle == [ssl |-> "live", mu |-> 0, t |-> [k \in PTasks |-> PTaskIdle]]

\* Read or Write is called with a buffer of len bytes, or Close is called.
\* Read and Write look at c.ssl first, without the mutex, and return at
\* once when it is nil or when the buffer is empty; the others go on to
\* c.mu.Lock().
PConnEnter(k, op, len) ==
    /\ pconn.t[k].pc = "idle"
    /\ op = "Close" => len = 0
    /\ pconn' = [pconn EXCEPT !["t"][k] =
          IF op # "Close" /\ pconn.ssl = "nil"
          THEN [PTaskIdle EXCEPT !.op = op, !.len = len, !.err = "not established"]
          ELSE IF op # "Close" /\ len = 0
          THEN [PTaskIdle EXCEPT !.op = op, !.err = "nil"]
          ELSE [PTaskIdle EXCEPT !.op = op, !.len = len, !.pc = "lock"]]
    /\ UNCHANGED <<sslctx, tunnelVars>>
    /\ UNCHANGED <<codecVars, icfgVars, pqcVars, wireVars, runVars, idsVars>>

\* A Lock that does not wait for the mutex.
PConnLockAnyway(k) ==
    /\ pconn.t[k].pc = "lock"
    /\ pconn' = [pconn EXCEPT !.mu = k, !["t"][k].pc = "call", !["t"][k].h = pconn.ssl]
    /\ UNCHANGED <<sslctx, tunnelVars>>
    /\ UNCHANGED <<codecVars, icfgVars, pqcVars, wireVars, runVars, idsVars>>

\* c.mu.Lock() returns and the method goes into its library call with
\* the value c.ssl has now: SSL_read, SSL_write, or, in Close and only for
\* a session that is still there, SSL_shutdown and SSL_free.
PConnLock(k) ==
    /\ pconn.t[k].pc = "lock"
    /\ pconn.mu = 0
    /\ pconn' = [pconn EXCEPT !.mu = k, !["t"][k].pc = "call", !["t"][k].h = pconn.ssl]
    /\ UNCHANGED <<sslctx, tunnelVars>>
    /\ UNCHANGED <<codecVars, icfgVars, pqcVars, wireVars, runVars, idsVars>>

\* What SSL_read and SSL_write come back with on the non-blocking socket
\* of the connection: bytes, a close notify, want-read or want-write, or
\* another error; and what Read and Write make of it.
LibOutcomes == {"bytes", "zero_return", "want", "error"}

PConnResult(len, o) ==
    CASE o = "bytes"       -> [n |-> len, err |-> "nil"]
      [] o = "zero_return" -> [n |-> 0, err |-> "EOF"]
      [] o = "want"        -> [n |-> 0, err |-> "nil"]
      [] OTHER             -> [n |-> 0, err |-> "SSL error"]

\* The library call returns, the method returns and its deferred Unlock
\* releases the mutex.  Close leaves c.ssl nil.
PConnReturn(k) ==
    /\ pconn.t[k].pc = "call"
    /\ \E o \in LibOutcomes :
         LET r == IF pconn.t[k].op = "Close" THEN [n |-> 0, err |-> "nil"]
                  ELSE PConnResult(pconn.t[k].len, o)
         IN pconn' = [pconn EXCEPT
                        !.mu = 0,
                        !.ssl = IF pconn.t[k].op = "Close" THEN "nil" ELSE @,
                        !["t"][k].pc = "idle",
                        !["t"][k].n = r.n, !["t"][k].err = r.err]
    /\ UNCHANGED <<sslctx, tunnelVars>>
    /\ UNCHANGED <<codecVars, icfgVars, pqcVars, wireVars, runVars, idsVars>>

TlsOff == sslctx = CtxIdle /\ pconn = PConnIdle

TunnelOff ==
    /\ wire = WireIdle /\ run = RunIdle /\ ids = IdsIdle /\ TlsOff
    /\ useTLS = FALSE /\ srvUp = FALSE /\ nStarts = 0
    /\ InitControl /\ InitTunnelData
    /\ cli = [pc |-> "off", controlConn |-> 0]

NextCodec == CodecEncode \/ CodecDecode \/ CodecReencode

InitCodec == CodecInputs /\ icfg = IcfgIdle /\ dialer = DialerIdle /\ TunnelOff

SpecCodec == InitCodec /\ [][NextCodec]_vars

NextInitConfig == IcfgEncode \/ IcfgDecode

InitIcfg == IcfgInputs /\ codec = CodecIdle /\ dialer = DialerIdle /\ TunnelOff

SpecInitConfig == InitIcfg /\ [][NextInitConfig]_vars

\* The stream ids of the sessions: each session is either not registered
\* yet, or registered with its counter at one of the start values.
InitIds ==
    /\ TlsOff
    /\ codec = CodecIdle /\ icfg = IcfgIdle /\ dialer = DialerIdle
    /\ useTLS = FALSE /\ srvUp = FALSE /\ nStarts = 0
    /\ InitControl /\ InitTunnelData
    /\ cli = [pc |-> "off", controlConn |-> 0]
    /\ wire = WireIdle /\ run = RunIdle
    /\ ids \in [Ctl -> {NoIds} \cup {[NoIds EXCEPT !.reg = TRUE, !.next = v] : v \in IdStarts}]

NextIds == \E c \in Ctl : IdsRegister(c) \/ IdsAllocate(c) \/ IdsDelete(c)

SpecIds == InitIds /\ [][NextIds]_vars

\* The writers of one control connection.
InitWire ==
    /\ TlsOff
    /\ codec = CodecIdle /\ icfg = IcfgIdle /\ dialer = DialerIdle
    /\ useTLS = FALSE /\ srvUp = FALSE /\ nStarts = 0
    /\ InitControl /\ InitTunnelData
    /\ cli = [pc |-> "off", controlConn |-> 0]
    /\ wire = WireIdle /\ run = RunIdle /\ ids = IdsIdle

NextWire == \E t \in WTasks : WireCall(t) \/ WireLock(t) \/ WireSend(t) \/ WireFail(t)

SpecWire == InitWire /\ [][NextWire]_vars

\* The construction of a TLS context.
InitCtx ==
    /\ codec = CodecIdle /\ icfg = IcfgIdle /\ dialer = DialerIdle
    /\ TunnelOff

NextCtx ==
    \/ \E role \in {"server", "client"} : CtxCall(role)
    \/ CtxNew
    \/ CtxSetGroups
    \/ CtxSetSigalgs
    \/ \E i \in 1..4 : CtxLoad(i)
    \/ CtxReturn

SpecCtx == InitCtx /\ [][NextCtx]_vars

\* One PQCConn under concurrent Read, Write and Close.
InitPConn ==
    /\ codec = CodecIdle /\ icfg = IcfgIdle /\ dialer = DialerIdle
    /\ TunnelOff

PConnStep(k) == PConnLock(k) \/ PConnReturn(k)

NextPConn ==
    \/ \E k \in PTasks : \E op \in {"Read", "Write", "Close"} : \E len \in 0..MaxBuf :
          PConnEnter(k, op, len)
    \/ \E k \in PTasks : PConnStep(k)

SpecPConn == InitPConn /\ [][NextPConn]_vars

\* The library calls return, and sync.Mutex hands the lock to a task that
\* waits for it (a waiter of more than a millisecond is served next).
SpecPConnFair ==
    SpecPConn /\ \A k \in PTasks : WF_vars(PConnReturn(k)) /\ SF_vars(PConnLock(k))

\* The tunnel over plain TCP: one server process at a time, one client.
Init ==
    /\ TlsOff
    /\ codec = CodecIdle /\ icfg = IcfgIdle /\ dialer = DialerIdle /\ wire = WireIdle
    /\ run = RunIdle /\ ids = IdsIdle
    /\ useTLS = FALSE /\ srvUp = FALSE /\ nStarts = 0
    /\ InitControl /\ InitTunnelData
    /\ cli = [pc |-> "dial", controlConn |-> 0]

\* The steps of the server's tasks.
ServerStep ==
    \/ SrvAccept
    \/ \E c \in Ctl : \/ SrvHandleInit(c)
                      \/ SrvHandleData(c)
                      \/ SrvHandleClose(c)
                      \/ PubAccept(c)
                      \/ PubLookup(c)
                      \/ PubWriteNewConn(c)
                      \/ PubStore(c)
    \/ \E e \in Ext : \/ ExtReadClosed(e)
                      \/ ExtReadData(e)
                      \/ ExtReadEOF(e)
                      \/ ExtWriteData(e)
                      \/ ExtReaderDefer(e)

\* The steps of the client's tasks.
ClientStep ==
    \/ ClientDial
    \/ ClientWake
    \/ ClientSendInit
    \/ ClientLoopError
    \/ ClientHandleNewConn
    \/ ClientHandleData
    \/ ClientHandleClose
    \/ \E l \in Ext : \/ FwReadData(l)
                      \/ FwReadEnds(l)
                      \/ FwWrite(l)
                      \/ FwDefer(l)

\* What the world around the two programs does: the server process is
\* started and stopped, users and the local service close connections.
EnvStep ==
    \/ ServerStart
    \/ ServerKill
    \/ \E e \in Ext : UserClose(e)
    \/ \E l \in Ext : ServiceClose(l)

\* A step of one of the two programs.
ProgramStep == ServerStep \/ ClientStep

Next == ProgramStep \/ EnvStep

Spec == Init /\ [][Next]_vars

\* The tunnel on a network that can cut an established control connection
\* while the server process keeps running: the server then tears the
\* session down, and the session's acceptor is left with a closed listener.
CutStep == \E c \in Ctl : ControlCut(c) \/ SrvReaderEnds(c) \/ PubAcceptFails(c)

NextCut ==
    \/ ProgramStep
    \/ ServerStart
    \/ \E e \in Ext : UserClose(e)
    \/ \E l \in Ext : ServiceClose(l)
    \/ CutStep

SpecCut == Init /\ [][NextCut]_vars

\* The server alone, with or without a global public address, against
\* remote ends that connect, send INIT frames and close, external users
\* that connect, and a shutdown request.
InitServer ==
    /\ TlsOff
    /\ codec = CodecIdle /\ icfg = IcfgIdle /\ dialer = DialerIdle /\ wire = WireIdle
    /\ \E g \in BOOLEAN : run = [RunIdle EXCEPT !.global = g]
    /\ ids = IdsIdle
    /\ useTLS = FALSE /\ srvUp = FALSE /\ nStarts = 0
    /\ InitControl /\ InitTunnelData
    /\ cli = [pc |-> "off", controlConn |-> 0]

RemoteStep ==
    \/ RemoteConnects
    \/ \E c \in Ctl : RemoteSendInit(c) \/ RemoteCloses(c)

SessionStep ==
    \/ SrvAccept
    \/ SrvAcceptStops
    \/ \E c \in Ctl : \/ SrvHandleInit(c)
                      \/ SrvReaderEnds(c)
                      \/ SrvReaderCancelled(c)

PublicStep ==
    \/ \E c \in Ctl : \/ PubAccept(c)
                      \/ PubAcceptFails(c)
                      \/ PubLookup(c)
                      \/ PubWriteNewConn(c)
                      \/ PubStore(c)
    \/ GlobAccept
    \/ GlobAcceptFails
    \/ GlobRoute
    \/ GlobLookup
    \/ GlobWriteNewConn
    \/ GlobStore
    \/ \E e \in Ext : ExtReadClosed(e) \/ ExtReaderDefer(e)

ShutdownStep == RunCleanup \/ RunCloseGlobal \/ RunReturn

\* The steps of the server's tasks in this setting.
ServerTaskStep == SessionStep \/ PublicStep \/ ShutdownStep

NextServer == ServerStart \/ RunCancel \/ RemoteStep \/ ServerTaskStep

SpecServer == InitServer /\ [][NextServer]_vars

\* The control listener of a TLS server and the peers that connect to it,
\* and a PQCDialer: no tunnel client runs.
InitPQC ==
    /\ TlsOff
    /\ codec = CodecIdle /\ icfg = IcfgIdle /\ dialer = DialerIdle /\ wire = WireIdle
    /\ run = RunStarted(FALSE) /\ ids = IdsIdle
    /\ useTLS = TRUE /\ srvUp = TRUE /\ nStarts = 1
    /\ InitControl /\ InitTunnelData
    /\ cli = [pc |-> "off", controlConn |-> 0]

\* The steps of the control accept loop of Server.Run.
AcceptLoopStep == SrvAccept \/ SrvHandshake

NextPQC ==
    \/ PeerConnects
    \/ AcceptLoopStep
    \/ DialStart
    \/ DialHandshake

SpecPQC == InitPQC /\ [][NextPQC]_vars

\* The accept loop is a running task: it takes its next step when it can.
SpecPQCFair == SpecPQC /\ WF_vars(AcceptLoopStep)

(***************************************************************************)
(* Streams as the claims see them.                                         *)
(***************************************************************************)
\* External socket e and local socket l are the two ends of one stream:
\* l answered the NEW_CONN that announced e.
Paired(e, l) ==
    /\ ext[e].ann
    /\ loc[l].dial # "none"
    /\ loc[l].ctlc = ext[e].sess
    /\ loc[l].sid = ext[e].sid

\* The chunks read so far from the user's side of e and from the service's
\* side of l, in the order read.
UserSent(e) == [k \in 1..ext[e].sent |-> UserTok(e, k)]
SvcSent(l)  == [k \in 1..loc[l].sent |-> SvcTok(l, k)]

RECURSIVE PayloadsOf(_, _, _)
\* The payloads of the frames of type t and stream id sid in queue q, in order.
PayloadsOf(q, t, sid) ==
    IF q = <<>> THEN <<>>
    ELSE (IF Head(q).Type = t /\ Head(q).ConnID = sid THEN Head(q).Payload ELSE <<>>)
         \o PayloadsOf(Tail(q), t, sid)

HasFrame(q, t, sid) == \E i \in 1..Len(q) : q[i].Type = t /\ q[i].ConnID = sid

\* Neither side has closed the stream, and its control session is up.
StreamOpen(e, l) ==
    /\ srvUp
    /\ ext[e].srv = "open" /\ ext[e].user = "open"
    /\ loc[l].cli = "open" /\ loc[l].svc = "open"
    /\ ctl[ext[e].sess].srv = "open" /\ ctl[ext[e].sess].cli = "open"
    /\ cli.controlConn = ext[e].sess
    /\ ~HasFrame(s2c[ext[e].sess], FrameTypeCLOSE, ext[e].sid)
    /\ ~HasFrame(c2s[ext[e].sess], FrameTypeCLOSE, ext[e].sid)

\* No step of the server or the client is possible: whatever happens next
\* is up to the environment.
Quiet == ~ENABLED ProgramStep

(***************************************************************************)
(* C1.  For every stream and in both directions, the bytes written to the  *)
(* destination socket are at every state a prefix of the bytes read from   *)
(* the source socket, and while neither side has closed the stream no byte *)
(* read from the source is lost: it is written to the destination or still *)
(* on its way (in the reader's buffer or in a DATA frame of the stream).   *)
(* This includes DATA the client emits while the server is between its     *)
(* NEW_CONN write and its stream-table insert.                             *)
(***************************************************************************)
C1_Prefix(e, l) ==
    /\ IsPrefix(loc[l].out, UserSent(e))
    /\ IsPrefix(ext[e].out, SvcSent(l))

C1_NoLoss(e, l) ==
    /\ UserSent(e) = loc[l].out
                     \o PayloadsOf(s2c[ext[e].sess], FrameTypeDATA, ext[e].sid)
                     \o ext[e].rbuf
    /\ SvcSent(l) = ext[e].out
                    \o PayloadsOf(c2s[ext[e].sess], FrameTypeDATA, ext[e].sid)
                    \o loc[l].fbuf

C1_ByteIntegrity ==
    \A e, l \in Ext :
        (Paired(e, l) /\ loc[l].dial = "ok") =>
            /\ C1_Prefix(e, l)
            /\ StreamOpen(e, l) => C1_NoLoss(e, l)

(***************************************************************************)
(* C2.  With several streams open on one control channel, the payload of a *)
(* DATA frame with stream id s is written only to the socket bound to s:   *)
(* no byte read from a socket of stream a is written to, or framed for, a  *)
(* different stream b of the same control channel.                         *)
(***************************************************************************)
\* Chunk t was read from a socket of stream (c, sid), or on another channel.
C2_OwnChunk(t, c, sid) ==
    IF t.src = "user"
    THEN ext[t.conn].sess = c => ext[t.conn].sid = sid
    ELSE loc[t.conn].ctlc = c => loc[t.conn].sid = sid

C2_OwnFrames(q, c) ==
    \A i \in 1..Len(q) :
        q[i].Type = FrameTypeDATA =>
            \A k \in 1..Len(q[i].Payload) : C2_OwnChunk(q[i].Payload[k], c, q[i].ConnID)

C2_NoCrossTalk ==
    /\ \A e \in Ext : \A k \in 1..Len(ext[e].out) :
          /\ ext[e].out[k].src = "svc"
          /\ C2_OwnChunk(ext[e].out[k], ext[e].sess, ext[e].sid)
    /\ \A l \in Ext : \A k \in 1..Len(loc[l].out) :
          /\ loc[l].out[k].src = "user"
          /\ C2_OwnChunk(loc[l].out[k], loc[l].ctlc, loc[l].sid)
    /\ \A c \in Ctl : C2_OwnFrames(s2c[c], c) /\ C2_OwnFrames(c2s[c], c)

\* Two streams of one control channel, open together, each having carried
\* a chunk in each direction.
C2_Witness ==
    \E e1, e2, l1, l2 \in Ext :
        /\ e1 # e2
        /\ ext[e1].sess = ext[e2].sess
        /\ Paired(e1, l1) /\ Paired(e2, l2)
        /\ ext[e1].srv = "open" /\ ext[e2].srv = "open"
        /\ ext[e1].out # <<>> /\ ext[e2].out # <<>>
        /\ loc[l1].out # <<>> /\ loc[l2].out # <<>>

(***************************************************************************)
(* C3.  After the server stopped and a server listens again, the client    *)
(* re-establishes a control session and an external connection accepted    *)
(* after that is carried end to end: what its two sockets receive is what  *)
(* the other one sent, and the stream stays up while its user and its      *)
(* local service keep their ends open.                                     *)
(***************************************************************************)
\* e was accepted by the restarted server, on the client's new session.
C3_AfterRestart(e) ==
    /\ nStarts > 1
    /\ srvUp
    /\ ext[e].sess \in clients
    /\ cli.controlConn = ext[e].sess

C3_CarriedEndToEnd ==
    \A e, l \in Ext :
        (C3_AfterRestart(e) /\ Paired(e, l) /\ loc[l].dial = "ok") =>
            /\ \A k \in 1..Len(ext[e].out) : ext[e].out[k] = SvcTok(l, k)
            /\ \A k \in 1..Len(loc[l].out) : loc[l].out[k] = UserTok(e, k)
            /\ (ext[e].user = "open" /\ loc[l].svc = "open")
                   => (ext[e].srv = "open" /\ loc[l].cli = "open")

(***************************************************************************)
(* C4.  Stream-table agreement: for every stream id s of a live session,   *)
(* when no NEW_CONN{s} or CLOSE{s} is in flight in either direction and no *)
(* task has a step pending, s is in the server's stream table exactly if   *)
(* it is in the client's.                                                  *)
(***************************************************************************)
C4_NothingInFlight(c, s) ==
    /\ ~HasFrame(s2c[c], FrameTypeNEW_CONN, s) /\ ~HasFrame(s2c[c], FrameTypeCLOSE, s)
    /\ ~HasFrame(c2s[c], FrameTypeNEW_CONN, s) /\ ~HasFrame(c2s[c], FrameTypeCLOSE, s)

C4_Disagree(c, s) ==
    (ConnMap[c][s] # 0) # (connMap[s] # 0 /\ loc[connMap[s]].ctlc = c)

C4_TablesAgree ==
    \A c \in Ctl, s \in Sids :
        ( /\ srvUp /\ c \in clients
          /\ cli.pc = "loop" /\ cli.controlConn = c
          /\ C4_NothingInFlight(c, s)
          /\ C4_Disagree(c, s) )
        => ~Quiet

(***************************************************************************)
(* C5.  When the client's dial of the local address fails for NEW_CONN{s}, *)
(* no DATA payload is ever written to the external socket the server       *)
(* accepted for s, and the server closes that socket: once the server and  *)
(* the client have nothing left to do, it is closed, whatever the order of *)
(* the client's CLOSE{s} and the server's stream-table insert.             *)
(***************************************************************************)
C5_DialFailureClosesExternal ==
    \A e, l \in Ext :
        (Paired(e, l) /\ loc[l].dial = "failed") =>
            /\ ext[e].out = <<>>
            /\ (srvUp /\ ext[e].srv = "open" /\ cli.controlConn = ext[e].sess) => ~Quiet

(***************************************************************************)
(* C6.  EncodeFrame and DecodeFrame are mutually inverse: decoding an      *)
(* encoded frame (followed by any later bytes) yields the same type,       *)
(* stream id and payload and leaves the later bytes unread; decoding any   *)
(* byte sequence that begins with a complete frame consumes exactly        *)
(* 9 + payload_len bytes, leaves the remainder unchanged, and encoding     *)
(* the result gives back the consumed bytes.                               *)
(***************************************************************************)
\* The reader begins with a complete frame: 9 header bytes whose declared
\* length (bytes 6..9, big endian) is available behind them.
BeginsWithFrame(b) ==
    /\ Len(b) >= 9
    /\ b[6] = 0 /\ b[7] = 0
    /\ b[8] * 256 + b[9] <= Len(b) - 9

DeclaredLen(b) == b[8] * 256 + b[9]

C6_RoundTrip ==
    codec.stage \in {"decoded", "done"} =>
      /\ codec.src = "frame" =>
            /\ codec.res.err = "nil"
            /\ codec.res.frame = codec.f
            /\ codec.res.rest = codec.rest
      /\ BeginsWithFrame(codec.wire) =>
            /\ codec.res.err = "nil"
            /\ Len(codec.res.frame.Payload) = DeclaredLen(codec.wire)
            /\ codec.res.rest = Drop(codec.wire, 9 + DeclaredLen(codec.wire))
            /\ codec.stage = "done" =>
                  codec.re = Take(codec.wire, 9 + DeclaredLen(codec.wire))

C6_Witness ==
    /\ codec.stage = "done"
    /\ codec.src = "frame"
    /\ codec.f.ConnID = <<65535, 65535>>
    /\ Len(codec.f.Payload) >= 1
    /\ codec.rest # <<>>

(***************************************************************************)
(* C7.  InitConfig round trip: for every remote_port in 0..65535 and every *)
(* local_addr (further ':' included) DecodeInitConfig(EncodeInitConfig(c)) *)
(* returns the same remote_port and local_addr; a decoded local_addr is    *)
(* everything after the first ':' of the payload, verbatim; a payload with *)
(* no ':' or whose port part is not a decimal integer (an optional sign    *)
(* and one or more digits, as strconv.Atoi reads it) yields an error and   *)
(* no InitConfig.                                                          *)
(***************************************************************************)
HasColon(d) == \E i \in 1..Len(d) : d[i] = ChColon

FirstColon(d) == CHOOSE i \in 1..Len(d) : d[i] = ChColon /\ \A j \in 1..(i - 1) : d[j] # ChColon

IsDigit(ch) == ch \in ChZero..(ChZero + 9)

\* An optional sign followed by one or more digits.
IsDecimal(t) ==
    \E k \in 0..1 :
        /\ Len(t) > k
        /\ k = 1 => t[1] \in {ChPlus, ChMinus}
        /\ \A i \in (k + 1)..Len(t) : IsDigit(t[i])

C7_InitRoundTrip ==
    icfg.stage = "decoded" =>
      /\ (icfg.src = "config" /\ icfg.config.RemotePort \in 0..65535) =>
            /\ icfg.res.err = "nil"
            /\ icfg.res.config = icfg.config
      /\ icfg.res.err = "nil" =>
            /\ HasColon(icfg.payload)
            /\ icfg.res.config.LocalAddr = Drop(icfg.payload, FirstColon(icfg.payload))
      /\ (~HasColon(icfg.payload)
            \/ ~IsDecimal(Take(icfg.payload, FirstColon(icfg.payload) - 1))) =>
            /\ icfg.res.err # "nil"
            /\ icfg.res.config = NoConfig

C7_Witness ==
    /\ icfg.stage = "decoded"
    /\ icfg.src = "config"
    /\ icfg.config.RemotePort = 65535
    /\ HasColon(icfg.config.LocalAddr)
    /\ icfg.res.err = "nil"

(***************************************************************************)
(* C8.  With PQC enforcement active, PQCListener.Accept and PQCDialer.Dial *)
(* return a usable connection only if the negotiated key-exchange group    *)
(* name begins with ML-KEM, MLKEM, mlkem, ml-kem or KYBER; for every other *)
(* negotiated group (a name that only contains one of these after another  *)
(* prefix, an unobtainable id or name) the TLS session is freed, the       *)
(* socket closed and the failure "non-PQC algorithms were negotiated"      *)
(* returned.                                                               *)
(***************************************************************************)
MatchesAnchored(n) ==
    /\ n # NULL
    /\ \/ IsPrefix(N_MLKEM, n) \/ IsPrefix(N_ML_KEM, n)
       \/ IsPrefix(N_mlkem, n) \/ IsPrefix(N_ml_kem, n)
       \/ IsPrefix(N_KYBER, n)

\* The peer completed the TLS handshake itself (SSL_accept / SSL_connect > 0).
Negotiates(p) == p.pre = "ok" /\ p.final = "ok"

C8_AcceptAnchored(c) ==
    /\ ctl[c].srv = "open" => MatchesAnchored(ctl[c].peer.group_name)
    /\ ( /\ ctl[c].srv = "closed"
         /\ Negotiates(ctl[c].peer)
         /\ ~MatchesAnchored(ctl[c].peer.group_name) )
       => ctl[c].ssl = "freed" /\ ctl[c].err = ErrNonPQC

C8_DialAnchored ==
    /\ dialer.stage = "returned" => MatchesAnchored(dialer.peer.group_name)
    /\ ( /\ dialer.stage = "failed"
         /\ Negotiates(dialer.peer)
         /\ ~MatchesAnchored(dialer.peer.group_name) )
       => dialer.ssl = "freed" /\ dialer.sock = "closed" /\ dialer.err = ErrNonPQC

HandshakeFailed(c) == ctl[c].err # "nil"

C9_NoSessionForFailed ==
    \A c \in Ctl : HandshakeFailed(c) =>
        /\ c \notin clients
        /\ info[c].ID = 0
        /\ srvRd[c] = "none"
        /\ ctl[c].srv = "closed"

C9_LoopRuns == srvAcc.pc \in {"accept", "handshake"}

C9_CompliantWaiting(c) == ctl[c].srv \in {"backlog", "handshake"} /\ CompliantPeer(ctl[c].peer)

C9_FailureIsLocal ==
    /\ [](C9_NoSessionForFailed /\ C9_LoopRuns)
    /\ \A c \in Ctl : C9_CompliantWaiting(c) ~> (c \in clients /\ info[c].ID > 0)

\* A compliant client registered after an earlier connection failed its handshake.
C9_Witness ==
    \E c, d \in Ctl :
        /\ d < c
        /\ HandshakeFailed(d) /\ d \notin clients
        /\ CompliantPeer(ctl[c].peer) /\ c \in clients

(***************************************************************************)
(* C10.  On every control channel and for every stream id s, the server    *)
(* writes NEW_CONN{s} before any DATA{s} or CLOSE{s}: it writes a DATA or  *)
(* CLOSE frame only for an announced stream, and every DATA or CLOSE frame *)
(* the client has yet to handle comes after the NEW_CONN of its stream.    *)
(***************************************************************************)
\* The client has handled NEW_CONN{sid} on connection c.
C10_Told(c, sid) == \E l \in Ext : loc[l].dial # "none" /\ loc[l].ctlc = c /\ loc[l].sid = sid

C10_ToldFirst ==
    \A c \in Ctl : \A i \in 1..Len(s2c[c]) :
        s2c[c][i].Type \in {FrameTypeDATA, FrameTypeCLOSE} =>
            \/ C10_Told(c, s2c[c][i].ConnID)
            \/ \E j \in 1..(i - 1) :
                 s2c[c][j].Type = FrameTypeNEW_CONN /\ s2c[c][j].ConnID = s2c[c][i].ConnID

\* A frame the server appends in this step belongs to an announced stream.
C10_WritesAnnounced ==
    \A c \in Ctl :
        Len(s2c'[c]) > Len(s2c[c]) =>
            LET f == s2c'[c][Len(s2c'[c])] IN
            f.Type \in {FrameTypeDATA, FrameTypeCLOSE} =>
                \E e \in Ext : ext[e].sess = c /\ ext[e].sid = f.ConnID /\ ext[e].ann

C10_NewConnFirst == [](C10_ToldFirst) /\ [][C10_WritesAnnounced]_vars

\* The client holds a DATA and a CLOSE frame of a stream it was told about.
C10_Witness ==
    \E c \in Ctl, s \in Sids :
        /\ C10_Told(c, s)
        /\ HasFrame(s2c[c], FrameTypeDATA, s)
        /\ HasFrame(s2c[c], FrameTypeCLOSE, s)

(***************************************************************************)
(* C11.  For the server and for the client, and for every stream of one    *)
(* control session: after the endpoint has written CLOSE{s} it writes no   *)
(* further frame for s on that session, neither DATA{s} nor a second       *)
(* CLOSE{s}, however the stream's reader task and the inbound frame        *)
(* handler interleave.                                                     *)
(***************************************************************************)
C11_ServerCloseLast == \A e \in Ext : ext[e].closeW <= 1

C11_ClientCloseLast == \A l \in Ext : loc[l].closeW <= 1

C11_CloseIsLast == C11_ServerCloseLast /\ C11_ClientCloseLast

(***************************************************************************)
(* C12.  Frames written to one control connection by concurrently running  *)
(* tasks are never interleaved: what the connection has been given is a    *)
(* concatenation of whole frames, each header followed by exactly its own  *)
(* payload, in the order their writes began; only the frame being written  *)
(* (or the one whose write failed and ended the connection) is partial.    *)
(***************************************************************************)
RECURSIVE DecodeAll(_)
\* The frames DecodeFrame reads from the bytes b, call after call, and what
\* is left when a call fails.
DecodeAll(b) ==
    LET r == DecodeFrame(b) IN
    IF r.err # "nil" THEN [frames |-> <<>>, rest |-> b]
    ELSE LET d == DecodeAll(r.rest) IN [frames |-> <<r.frame>> \o d.frames, rest |-> d.rest]

C12_NoInterleaving ==
    LET d == DecodeAll(wire.bytes) IN
    /\ IsPrefix(d.frames, wire.log)
    /\ Len(wire.log) - Len(d.frames) <= 1
    /\ IF Len(d.frames) = Len(wire.log) THEN d.rest = <<>>
       ELSE /\ wire.lock # 0 \/ wire.broken
            /\ IsPrefix(d.rest, EncodeFrame(wire.log[Len(wire.log)]))
    /\ (wire.lock = 0 /\ ~wire.broken) => (d.frames = wire.log)

\* A task is part way through its frame while another waits to write, after
\* a frame of a third has gone out whole.
C12_Witness ==
    \E t, u \in WTasks :
        /\ t # u
        /\ wire.lock = t
        /\ wire.task[t].off > 0 /\ wire.task[t].off < Len(wire.task[t].buf)
        /\ wire.task[u].pc = "lock"
        /\ Len(wire.log) >= 2

(***************************************************************************)
(* C13.  Server session teardown: once the frame reader of a session has   *)
(* ended and unregisterClient has completed, the session is not in the     *)
(* registry, its control connection and its listener are closed, its       *)
(* stream table is empty and stays empty, and no external socket accepted  *)
(* for it is open, except one that handlePublicConnection still holds and  *)
(* is about to close; a socket whose handlePublicConnection ran during the *)
(* teardown is included.                                                   *)
(***************************************************************************)
C13_TornDown(c) == srvUp /\ srvRd[c] = "done"

\* handlePublicConnection is still running with socket e of session c.
C13_InHand(c, e) == acc[c].e = e /\ acc[c].pc \in {"lookup", "write", "store"}

C13_SessionTeardown ==
    \A c \in Ctl :
        C13_TornDown(c) =>
            /\ c \notin clients
            /\ ctl[c].srv = "closed"
            /\ PublicListener[c] # "open"
            /\ ConnMap[c] = EmptyMap
            /\ \A e \in Ext :
                   (ext[e].sess = c /\ ext[e].srv = "open" /\ ~C13_InHand(c, e))
                       => acc[c].pc = "none"

(***************************************************************************)
(* C14.  Shutdown: once the context of Server.Run is cancelled, Run        *)
(* returns, having closed the control listener, the global public          *)
(* listener, every per-client listener, every control connection and every *)
(* external socket, whatever the number of registered sessions.  Stated on *)
(* the states in which the context is cancelled and no task of the server  *)
(* can take a step: there Run has returned and everything is closed.       *)
(***************************************************************************)
C14_AllClosed ==
    /\ run.pc = "ret"
    /\ run.controlListener = "closed"
    /\ run.publicListener # "open"
    /\ \A c \in Ctl : /\ PublicListener[c] # "open"
                      /\ ctl[c].srv \notin {"backlog", "handshake", "open"}
    /\ \A e \in Ext : ext[e].srv # "open"

C14_ShutdownCompletes == (run.ctx = "done" /\ ~ENABLED ServerTaskStep) => C14_AllClosed

(***************************************************************************)
(* C15.  Client reconnect: when the frame loop has ended with an error,    *)
(* the control socket is closed, the table of local streams is empty and   *)
(* every local socket is closed before the client dials again; at the      *)
(* start of a session the client holds no stream entry of an earlier one.  *)
(***************************************************************************)
\* The client is between two sessions: the loop has ended, Run sleeps or
\* is about to dial.
C15_BetweenSessions == cli.pc \in {"sleep", "dial"} /\ cli.controlConn = 0

C15_CleanBeforeDial ==
    C15_BetweenSessions =>
        /\ \A c \in Ctl : c <= nCtl => ctl[c].cli \notin {"open"}
        /\ connMap = EmptyMap
        /\ \A l \in Ext : loc[l].cli # "open"

C15_NoEntryOfEarlierSession ==
    \A s \in Sids : (connMap[s] # 0 /\ cli.controlConn # 0) =>
        loc[connMap[s]].ctlc = cli.controlConn

C15_ReconnectIsClean == C15_CleanBeforeDial /\ C15_NoEntryOfEarlierSession

(***************************************************************************)
(* C16.  Stream ids of a session on the server are 1, 2, 3, ..., each the  *)
(* previous one plus one in 32-bit unsigned arithmetic; two live streams   *)
(* of a session never share an id; the id 0 is never allocated nor a key   *)
(* of a stream table; the sessions are independent and each starts at 1.   *)
(***************************************************************************)
\* b is a plus one as 32-bit unsigned numbers, limb by limb.
C16_Succ(a, b) ==
    \/ a[2] < 65535 /\ b = <<a[1], a[2] + 1>>
    \/ a[2] = 65535 /\ a[1] < 65535 /\ b = <<a[1] + 1, 0>>
    \/ a = Uint32Max /\ b = Uint32Zero

\* a < b as 32-bit unsigned numbers.
C16_Less(a, b) == a[1] < b[1] \/ (a[1] = b[1] /\ a[2] < b[2])

\* The ids handed out by a session follow each other by plus one, and the
\* counter holds the last of them.
C16_Successive(c) ==
    /\ \A i \in 1..(Len(ids[c].given) - 1) : C16_Succ(ids[c].given[i], ids[c].given[i + 1])
    /\ ids[c].given # <<>> => ids[c].next = ids[c].given[Len(ids[c].given)]

\* The ids handed out are pairwise different and the live ones are among them.
C16_Distinct(c) ==
    /\ \A i, j \in 1..Len(ids[c].given) : i < j => ids[c].given[i] # ids[c].given[j]
    /\ \A id \in ids[c].table : \E i \in 1..Len(ids[c].given) : ids[c].given[i] = id

\* The id 0 has not been handed out and is no key of the table.
C16_NoZero(c) ==
    /\ \A i \in 1..Len(ids[c].given) : ids[c].given[i] # Uint32Zero
    /\ Uint32Zero \notin ids[c].table

\* A session registered during the run starts at 1, whatever the others did.
C16_StartsAtOne(c) ==
    (ids[c].reg /\ ids[c].given # <<>> /\ ids[c].next = ToUint32(Len(ids[c].given)))
        => ids[c].given[1] = <<0, 1>>

\* The claim as stated: for every session, without a limit on the number of
\* allocations.
C16_IdsAsStated == \A c \in Ctl : C16_Successive(c) /\ C16_Distinct(c) /\ C16_NoZero(c)

\* The claim for a session whose counter has not passed 2^32 - 1: its ids
\* grow strictly, so they are different and none is 0.
C16_IdsBeforeWrap ==
    \A c \in Ctl :
        /\ C16_Successive(c)
        /\ C16_StartsAtOne(c)
        /\ ~ids[c].wrapped =>
              /\ C16_Distinct(c) /\ C16_NoZero(c)
              /\ \A i \in 1..(Len(ids[c].given) - 1) :
                    C16_Less(ids[c].given[i], ids[c].given[i + 1])

\* Two sessions have handed out ids, one from 1 on and one across a carry
\* of the low half, and streams of both are live.
C16_Witness ==
    \E c, d \in Ctl :
        /\ c # d
        /\ ids[c].given = << <<0, 1>>, <<0, 2>>, <<0, 3>> >>
        /\ ids[d].given = << <<0, 65535>>, <<1, 0>>, <<1, 1>> >>
        /\ ~ids[c].wrapped /\ ~ids[d].wrapped
        /\ ids[c].table # {} /\ ids[d].table # {}

(***************************************************************************)
(* C17.  Without a global public address, an INIT frame with a remote port *)
(* above 0 makes the server bind the session's own listener on that port   *)
(* and start its acceptor.  When the bind fails because another session's  *)
(* listener holds the port, the session is not ended: it stays in the      *)
(* registry without a listener, its frame loop goes on, and no NEW_CONN is *)
(* written to it.                                                          *)
(***************************************************************************)
\* This step is the frame loop of session c handling an INIT frame.
HandlesInitFrame(c) ==
    /\ srvRd[c] = "run" /\ srvRd'[c] \in {"run", "return"}
    /\ c2s[c] # <<>> /\ Head(c2s[c]).Type = FrameTypeINIT
    /\ c2s'[c] = Tail(c2s[c])

\* The port the INIT frame at the head of c's queue asks for (0: none, or
\* the payload does not parse).
InitFramePort(c) ==
    LET r == DecodeInitConfig(Head(c2s[c]).Payload)
    IN IF r.err = "nil" THEN r.config.RemotePort ELSE 0

C17_PortTaken(c, port) ==
    \E d \in Ctl : d # c /\ PublicListener[d] = "open" /\ info[d].RemotePort = port

C17_SessionGoesOn(c) ==
    /\ c \in clients'
    /\ ctl'[c].srv = "open"
    /\ PublicListener'[c] = "nil" /\ acc'[c].pc = "none"
    /\ s2c'[c] = s2c[c]
    /\ srvRd'[c] = FrameLoopTop

C17_BindStep ==
    \A c \in Ctl :
        (/\ ~run.global /\ c \in clients /\ PublicListener[c] = "nil"
         /\ HandlesInitFrame(c) /\ InitFramePort(c) > 0)
        => IF C17_PortTaken(c, InitFramePort(c))
           THEN C17_SessionGoesOn(c)
           ELSE /\ PublicListener'[c] = "open" /\ info'[c].RemotePort = InitFramePort(c)
                /\ acc'[c].pc = "accept"

\* A session without a listener has no external socket and no NEW_CONN.
C17_NoExposure ==
    \A c \in Ctl :
        (~run.global /\ PublicListener[c] = "nil") =>
            /\ \A e \in Ext : ext[e].sess # c
            /\ \A i \in 1..Len(s2c[c]) : s2c[c][i].Type # FrameTypeNEW_CONN

C18_NoOwnListener ==
    run.global => \A c \in Ctl : PublicListener[c] = "nil" /\ acc[c].pc = "none"

\* Handling an INIT frame leaves the session where it was: registered,
\* connected, without a listener.
C18_InitStep ==
    \A c \in Ctl :
        (run.global /\ HandlesInitFrame(c)) =>
            /\ clients' = clients
            /\ ctl'[c].srv = ctl[c].srv
            /\ PublicListener' = PublicListener /\ acc' = acc

\* The global acceptor, about to route a connection, can pick any session
\* of the registry, those that have sent INIT frames included.
C18_Eligible ==
    \A c \in Ctl :
        (run.global /\ run.g.pc = "route" /\ MuFree /\ srvUp /\ c \in clients) =>
            ENABLED (GlobRoute /\ run'.g.c = c)

C18_GlobalOnly == [][C18_InitStep]_vars /\ [](C18_NoOwnListener /\ C18_Eligible)

\* A session has handled two INIT frames, one of them asking for a port,
\* and then was given a connection accepted on the global listener.
C18_Witness ==
    \E c \in Ctl :
        /\ run.global /\ c \in clients
        /\ ctl[c].inits = MaxInits /\ c2s[c] = <<>>
        /\ PublicListener[c] = "nil"
        /\ \E e \in Ext : ext[e].sess = c /\ ext[e].ann /\ ConnMap[c][ext[e].sid] = e

(***************************************************************************)
(* C19.  A second or later INIT frame on a session that has handled one is *)
(* ignored: the recorded remote port and local address, the session's      *)
(* listener and its stream table stay as they are and no listener is       *)
(* bound, whatever port the frame carries and whether or not the bind of   *)
(* the first one succeeded.                                                *)
(***************************************************************************)
\* The frame loop of session c handles an INIT frame that is not the first
\* of the session (a remote end sends its next INIT frame after the server
\* has taken the one before).
C19_HandlesLaterInit(c) == HandlesInitFrame(c) /\ ctl[c].inits >= 2

C19_LaterInitStep ==
    \A c \in Ctl :
        C19_HandlesLaterInit(c) =>
            /\ info'[c] = info[c]
            /\ PublicListener'[c] = PublicListener[c]
            /\ acc'[c] = acc[c]
            /\ ConnMap'[c] = ConnMap[c]

C19_LaterInitIgnored == [][C19_LaterInitStep]_vars

(***************************************************************************)
(* C20.  Routing on the global listener: a socket accepted while no        *)
(* session is registered is closed and no frame is written for it;         *)
(* otherwise one NEW_CONN is written, to a session of the registry, and    *)
(* the socket enters the stream table of that session only.  No socket is  *)
(* left open without belonging to a registered session.                    *)
(***************************************************************************)
\* The global acceptor has socket e in its hands (between Accept and the
\* end of handlePublicConnection).
C20_InHand(e) == run.g.e = e /\ run.g.pc \in {"route", "lookup", "write", "store"}

\* The NEW_CONN frames written for socket e that are still in flight.
C20_NewConns(e) ==
    Cardinality({x \in {<<c, i>> : c \in Ctl, i \in 1..(2 * MaxConns)} :
                   /\ x[2] <= Len(s2c[x[1]])
                   /\ s2c[x[1]][x[2]] = Frame(FrameTypeNEW_CONN, ext[e].sid, <<>>)
                   /\ ext[e].sess = x[1]})

C20_Socket(e) ==
    \* a socket that was given no session: closed once routed, no frame
    /\ (ext[e].srv # "none" /\ ext[e].sess = 0 /\ ~C20_InHand(e)) =>
            ext[e].srv = "closed" /\ ~ext[e].ann
    \* at most one NEW_CONN, on the control connection of its session
    /\ C20_NewConns(e) <= 1
    \* in no other session's stream table
    /\ \A c \in Ctl : \A t \in Sids : ConnMap[c][t] = e => (c = ext[e].sess /\ t = ext[e].sid)
    \* open, out of the acceptor's hands and not about to be closed by its
    \* reader: in the table of a registered session
    /\ (ext[e].srv = "open" /\ ~C20_InHand(e) /\ ext[e].rd # "defer") =>
            /\ ext[e].sess \in clients
            /\ ConnMap[ext[e].sess][ext[e].sid] = e

C20_GlobalRouting == run.global => \A e \in Ext : C20_Socket(e)

(***************************************************************************)
(* C21.  Routing on a session's own listener: every external socket        *)
(* accepted on the listener session C created from its INIT is announced   *)
(* with NEW_CONN on C's control connection only and enters C's stream      *)
(* table only; it is never given to another session, also while other      *)
(* sessions are registered, and when C is torn down the socket is closed.  *)
(***************************************************************************)
\* The acceptor of session c has socket e in its hands.
C21_InHand(e) == \E c \in Ctl : acc[c].e = e /\ acc[c].pc \in {"lookup", "write", "store"}

\* A step that announces socket e writes one NEW_CONN with its id on the
\* control connection of the session whose listener accepted it, and
\* nothing on any other.
C21_AnnounceStep ==
    \A e \in Ext :
        (~run.global /\ ~ext[e].ann /\ ext'[e].ann) =>
            \A d \in Ctl :
                IF d = ext[e].sess
                THEN \/ s2c'[d] = Append(s2c[d], Frame(FrameTypeNEW_CONN, ext[e].sid, <<>>))
                     \/ s2c'[d] = s2c[d]     \* written, lost on the way
                ELSE s2c'[d] = s2c[d]

C21_Socket(e) ==
    \* the acceptor that holds it belongs to the session of the listener
    /\ \A c \in Ctl : (acc[c].e = e /\ acc[c].pc # "accept") => ext[e].sess = c
    \* in no other session's stream table
    /\ \A d \in Ctl : \A t \in Sids : ConnMap[d][t] = e => (d = ext[e].sess /\ t = ext[e].sid)
    \* its session is torn down: the socket is closed (or its reader is
    \* about to close it)
    /\ (ext[e].sess \notin clients /\ ~C21_InHand(e) /\ ext[e].rd # "defer") =>
            ext[e].srv # "open"

C21_OwnSessionOnly == ~run.global => \A e \in Ext : ext[e].sess # 0 => C21_Socket(e)

C21_PerClientRouting == [][C21_AnnounceStep]_vars /\ []C21_OwnSessionOnly

(***************************************************************************)
(* C22.  Opening a stream on the server: for every accepted external       *)
(* socket the id is allocated first, then NEW_CONN is written, then the    *)
(* socket enters the session's stream table, then its reader task starts;  *)
(* the socket is in the table before the first read from it, and a socket  *)
(* whose NEW_CONN write failed is closed and never enters the table.       *)
(***************************************************************************)
\* Socket e is a key's value in some stream table.
C22_InTable(e) == \E c \in Ctl : \E t \in Sids : ConnMap[c][t] = e

\* What has happened to a socket implies the steps before it.
C22_Order(e) ==
    /\ ext[e].ann => ext[e].sid # 0                 \* (2) after (1)
    /\ C22_InTable(e) => ext[e].ann                 \* (3) after (2)
    /\ ext[e].rd # "none" => ext[e].ann             \* (4) after (2)
    /\ ext[e].sent > 0 => ext[e].rd # "none"        \* a read is the reader's
    \* NEW_CONN was not written and handlePublicConnection has returned:
    \* the socket is closed, in no table, without a reader
    /\ (ext[e].srv # "none" /\ ~ext[e].ann /\ ~C13_InHand(ext[e].sess, e)
        /\ ~(acc[ext[e].sess].e = e /\ acc[ext[e].sess].pc = "lookup")) =>
            ext[e].srv = "closed" /\ ~C22_InTable(e) /\ ext[e].rd = "none"

\* The reader starts in the step that puts the socket into the table, and
\* reads only after it.
C22_Step ==
    \A e \in Ext :
        /\ (ext[e].rd = "none" /\ ext'[e].rd # "none") =>
                /\ ~C22_InTable(e)
                /\ ConnMap'[ext[e].sess][ext[e].sid] = e
        /\ ext'[e].sent > ext[e].sent => ext[e].rd = "read"
        /\ (~C22_InTable(e) /\ C22_InTable(e)') => ext[e].ann

C22_OpeningOrder == [][C22_Step]_vars /\ [](\A e \in Ext : C22_Order(e))

\* One socket has gone through all four steps and has been read from;
\* for another the write of NEW_CONN failed.
C22_Witness ==
    \E e, f \in Ext :
        /\ ext[e].ann /\ ext[e].sent > 0
        /\ ext[f].srv = "closed" /\ ext[f].sid # 0 /\ ~ext[f].ann /\ ext[f].rd = "none"

(***************************************************************************)
(* C23.  Server stream reader against the peer's CLOSE: once the entry of  *)
(* a stream has left the stream table between the reader's read and its    *)
(* write, the bytes read are dropped and no DATA frame of that stream is   *)
(* written to the control channel after the removal.                       *)
(***************************************************************************)
\* The reader of socket e writes a DATA frame in this step.
C23_WritesData(e) ==
    /\ ext[e].rd = "write"
    /\ s2c'[ext[e].sess] =
           Append(s2c[ext[e].sess], Frame(FrameTypeDATA, ext[e].sid, ext[e].rbuf))

C23_DataStep == \A e \in Ext : C23_WritesData(e) => LoadConn(ext[e].sess, ext[e].sid) = e

C23_NoDataAfterRemoval == [][C23_DataStep]_vars

(***************************************************************************)
(* C24.  Server read termination: whenever the reader task of a stream     *)
(* gets EOF or a read error while the stream is still in the stream table, *)
(* the server writes CLOSE for the stream on the control channel, closes   *)
(* the external socket and removes the stream from the table.              *)
(***************************************************************************)
\* The reader of socket e leaves its loop on a failed Read in this step,
\* the stream still being in the table.
C24_ReadFails(e) ==
    /\ ext[e].rd = "read" /\ ext'[e].rd = "defer"
    /\ LoadConn(ext[e].sess, ext[e].sid) = e

\* CLOSE goes out on the control channel, unless the channel itself is
\* broken and the write returns an error or is lost.
C24_CloseWritten(e) ==
    LET c == ext[e].sess IN
    \/ s2c'[c] = Append(s2c[c], Frame(FrameTypeCLOSE, ext[e].sid, <<>>))
    \/ c \in clients /\ "ok" \notin SrvWriteOutcomes(c)

C24_ReadStep == \A e \in Ext : C24_ReadFails(e) => C24_CloseWritten(e)

\* A reader that has finished leaves the socket closed and out of the table.
C24_Released ==
    \A e \in Ext : ext[e].rd = "done" =>
        ext[e].srv = "closed" /\ LoadConn(ext[e].sess, ext[e].sid) # e

C24_ReadTermination == [][C24_ReadStep]_vars /\ []C24_Released

\* The server alone, as in SpecServer, with external users that close their
\* connections and the readers that then get EOF.
NextServerRead == NextServer \/ \E e \in Ext : UserClose(e) \/ ExtReadEOF(e)

SpecServerRead == InitServer /\ [][NextServerRead]_vars

(***************************************************************************)
(* C25.  Data-socket write error: when an inbound DATA frame is matched to *)
(* a stream and writing its payload to the stream's socket fails, the      *)
(* endpoint closes the socket, removes the stream from its table and       *)
(* writes exactly one CLOSE for the stream to the peer, and the control    *)
(* session goes on.                                                        *)
(***************************************************************************)
\* The server's handleDataFrame runs on session c in this step for a frame
\* matched to socket e, and the write to e fails.
C25_SrvWriteFails(c, e) ==
    /\ srvUp /\ srvUp' /\ srvRd[c] = "run" /\ c \in clients
    /\ c2s[c] # <<>> /\ c2s'[c] = Tail(c2s[c])
    /\ Head(c2s[c]).Type = FrameTypeDATA /\ Len(Head(c2s[c]).Payload) > 0
    /\ LoadConn(c, Head(c2s[c]).ConnID) = e
    /\ ext'[e].out = ext[e].out

\* The client's handleDataFrame runs in this step for a frame matched to
\* local socket l, and the write to l fails.
C25_CliWriteFails(l) ==
    /\ FramePending(FrameTypeDATA) /\ cli' = cli
    /\ s2c'[cli.controlConn] = Tail(s2c[cli.controlConn])
    /\ Len(NextFrame.Payload) > 0
    /\ LoadLocal(NextFrame.ConnID) = l
    /\ loc'[l].out = loc[l].out

\* The one CLOSE of the stream: none was written before, this step's write
\* is the first, or fails with the control connection.
C25_SrvStep ==
    \A c \in Ctl : \A e \in Ext : C25_SrvWriteFails(c, e) =>
        /\ ext'[e].srv = "closed"
        /\ LoadConn(c, ext[e].sid)' = 0
        /\ ext[e].closeW = 0
        /\ \/ s2c'[c] = Append(s2c[c], Frame(FrameTypeCLOSE, ext[e].sid, <<>>))
           \/ "ok" \notin SrvWriteOutcomes(c)
        /\ c \in clients' /\ ctl'[c].srv = ctl[c].srv /\ srvRd'[c] = "run"

C25_CliStep ==
    \A l \in Ext : C25_CliWriteFails(l) =>
        /\ loc'[l].cli = "closed"
        /\ LoadLocal(loc[l].sid)' = 0
        /\ loc[l].closeW = 0
        /\ \/ c2s'[cli.controlConn] =
                 Append(c2s[cli.controlConn], Frame(FrameTypeCLOSE, loc[l].sid, <<>>))
           \/ "ok" \notin CliWriteOutcomes
        /\ ctl'[cli.controlConn].cli = ctl[cli.controlConn].cli

C25_DataWriteError == [][C25_SrvStep /\ C25_CliStep]_vars

(***************************************************************************)
(* C26.  An inbound DATA frame whose id is not in the receiving endpoint's *)
(* stream table is discarded: no socket is written, the stream table and   *)
(* the rest of the session state stay as they are, no frame is sent in     *)
(* answer, and the control session keeps running.                          *)
(***************************************************************************)
\* The next frame of session c at the server is DATA of an id that is not
\* in the session's stream table.
C26_SrvUnknown(c) ==
    /\ srvUp /\ srvRd[c] = "run" /\ c \in clients
    /\ c2s[c] # <<>> /\ Head(c2s[c]).Type = FrameTypeDATA
    /\ LoadConn(c, Head(c2s[c]).ConnID) = 0

\* The next frame at the client is DATA of an id that is not in connMap.
C26_CliUnknown == FramePending(FrameTypeDATA) /\ LoadLocal(NextFrame.ConnID) = 0

\* The server's frame loop takes that frame in this step.
C26_SrvStep ==
    \A c \in Ctl :
        (C26_SrvUnknown(c) /\ srvUp' /\ c2s'[c] = Tail(c2s[c])) =>
            /\ ext' = ext /\ ConnMap' = ConnMap /\ s2c' = s2c
            /\ info' = info /\ NextConnID' = NextConnID /\ PublicListener' = PublicListener
            /\ acc' = acc /\ clients' = clients /\ ctl' = ctl
            /\ srvRd'[c] = "run"

\* The client's main loop takes that frame in this step.
C26_CliStep ==
    (C26_CliUnknown /\ cli' = cli /\ s2c'[cli.controlConn] = Tail(s2c[cli.controlConn])) =>
        /\ loc' = loc /\ connMap' = connMap /\ c2s' = c2s
        /\ ctl' = ctl /\ nLoc' = nLoc

C26_UnknownDataDiscarded == [][C26_SrvStep /\ C26_CliStep]_vars

\* Both endpoints are about to take a DATA frame of a stream they no longer
\* hold, or never held.
C26_Witness == C26_CliUnknown /\ \E c \in Ctl : C26_SrvUnknown(c)

(***************************************************************************)
(* C27.  The server handling an inbound CLOSE: a stream that is in the     *)
(* session's table is removed and its external socket closed in one step   *)
(* that no other task can come between, a stream that is absent changes    *)
(* nothing, and in either case the server writes no frame in answer.       *)
(***************************************************************************)
\* The server's frame loop takes a CLOSE frame of session c in this step.
C27_HandlesClose(c) ==
    /\ srvUp /\ srvUp' /\ srvRd[c] = "run" /\ c \in clients
    /\ c2s[c] # <<>> /\ Head(c2s[c]).Type = FrameTypeCLOSE
    /\ c2s'[c] = Tail(c2s[c])

C27_CloseStep ==
    \A c \in Ctl : C27_HandlesClose(c) =>
        LET sid == Head(c2s[c]).ConnID
            e   == LoadConn(c, sid)
        IN
        /\ s2c' = s2c
        /\ IF e = 0 THEN ext' = ext /\ ConnMap' = ConnMap
           ELSE /\ ConnMap' = [ConnMap EXCEPT ![c][sid] = 0]
                /\ ext' = [ext EXCEPT ![e].srv = "closed"]
        /\ clients' = clients /\ ctl' = ctl /\ srvRd'[c] = "run"

\* No state lies between the removal and the close: a socket that has been
\* in a table and is there no longer is closed.
C27_NoneBetween ==
    \A e \in Ext :
        (ext[e].rd # "none" /\ LoadConn(ext[e].sess, ext[e].sid) # e) => ext[e].srv = "closed"

C27_ServerClose == [][C27_CloseStep]_vars /\ []C27_NoneBetween

\* A stream of a healthy session has been closed by the peer's CLOSE: its
\* reader still sits in Read, the server has written no CLOSE for it.
C27_Witness ==
    \E e \in Ext :
        LET c == ext[e].sess IN
        /\ ext[e].rd = "read" /\ ext[e].srv = "closed" /\ ext[e].closeW = 0
        /\ ext[e].user = "open"
        /\ LoadConn(c, ext[e].sid) = 0
        /\ srvUp /\ c \in clients /\ ctl[c].srv = "open" /\ ctl[c].cli = "open"
        /\ c2s[c] = <<>>

(***************************************************************************)
(* C28.  The client handling an inbound CLOSE: the stream leaves the       *)
(* client's table, its local socket, if there is one, is closed, and the   *)
(* client echoes CLOSE for the stream to the server.                       *)
(***************************************************************************)
\* The client's main loop takes a CLOSE frame in this step.
C28_HandlesClose ==
    /\ FramePending(FrameTypeCLOSE) /\ cli' = cli
    /\ s2c'[cli.controlConn] = Tail(s2c[cli.controlConn])

\* CLOSE for the frame's id goes out, unless the control connection is
\* broken and the write fails or is lost.
C28_Echo ==
    \/ c2s'[cli.controlConn] =
          Append(c2s[cli.controlConn], Frame(FrameTypeCLOSE, NextFrame.ConnID, <<>>))
    \/ "ok" \notin CliWriteOutcomes

\* The stream is in the table: removed, closed, echoed.
C28_Present(l) ==
    /\ connMap' = [connMap EXCEPT ![NextFrame.ConnID] = 0]
    /\ loc'[l].cli = "closed"
    /\ C28_Echo

\* As stated: the echo follows every CLOSE.
C28_EchoAlwaysStep ==
    C28_HandlesClose =>
        LET l == LoadLocal(NextFrame.ConnID) IN
        /\ connMap'[NextFrame.ConnID] = 0
        /\ l # 0 => loc'[l].cli = "closed"
        /\ C28_Echo

C28_EchoAlways == [][C28_EchoAlwaysStep]_vars

\* As the code has it: the echo follows the CLOSE of a stream that is in
\* the table; a CLOSE of an absent stream changes nothing and is not
\* answered.
C28_EchoStep ==
    C28_HandlesClose =>
        LET l == LoadLocal(NextFrame.ConnID) IN
        IF l # 0 THEN C28_Present(l)
        ELSE loc' = loc /\ connMap' = connMap /\ c2s' = c2s

C28_EchoIfPresent == [][C28_EchoStep]_vars

\* A stream whose service is still there has been closed by the server's
\* CLOSE: the forwarder still sits in Read, the echo is the one CLOSE of
\* the stream.
C28_Witness ==
    \E l \in Ext :
        /\ loc[l].cli = "closed" /\ loc[l].svc = "open" /\ loc[l].fw = "read"
        /\ loc[l].closeW = 1
        /\ LoadLocal(loc[l].sid) = 0
        /\ cli.pc = "loop" /\ cli.controlConn = loc[l].ctlc

(***************************************************************************)
(* C29.  The client handling NEW_CONN: when the dial of the local service  *)
(* fails the client writes CLOSE for the stream, does not insert it into   *)
(* its table and starts no reader; when the dial succeeds the stream is    *)
(* inserted with the new local socket, exactly one reader is started for   *)
(* it, and no frame of the stream is written before the insert.            *)
(***************************************************************************)
\* The client's main loop takes a NEW_CONN frame in this step; the socket
\* record it fills is the next one.
C29_HandlesNewConn ==
    /\ FramePending(FrameTypeNEW_CONN) /\ cli' = cli
    /\ s2c'[cli.controlConn] = Tail(s2c[cli.controlConn])

C29_NewConnStep ==
    C29_HandlesNewConn =>
        LET sid == NextFrame.ConnID
            l   == nLoc + 1
            c   == cli.controlConn
        IN
        /\ nLoc' = l
        /\ \A k \in Ext \ {l} : loc'[k] = loc[k]
        /\ IF loc'[l].dial = "failed"
           THEN /\ \/ c2s'[c] = Append(c2s[c], Frame(FrameTypeCLOSE, sid, <<>>))
                   \/ "ok" \notin CliWriteOutcomes
                /\ connMap' = connMap
                /\ loc'[l].fw = "none" /\ loc'[l].cli = "none"
           ELSE /\ loc'[l].dial = "ok"
                /\ connMap' = [connMap EXCEPT ![sid] = l]
                /\ loc'[l].fw = "read" /\ loc'[l].cli = "open"
                /\ loc'[l].sid = sid /\ loc'[l].closeW = 0
                /\ c2s' = c2s

\* No frame of the stream has been written on the control connection when
\* the stream is inserted: none waits there for the server.
C29_NoneWritten ==
    LET c == cli.controlConn IN
    \A i \in 1..Len(c2s[c]) :
        c2s[c][i].Type = FrameTypeINIT \/ c2s[c][i].ConnID # NextFrame.ConnID

C29_InsertStep ==
    (C29_HandlesNewConn /\ loc'[nLoc + 1].dial = "ok") => C29_NoneWritten

C29_ClientNewConn == [][C29_NewConnStep /\ C29_InsertStep]_vars

(***************************************************************************)
(* C30.  A write error on the control channel is terminal for the session: *)
(* once a task's write of a frame to a session's control channel has       *)
(* failed, the server ends up with the session's streams closed, its       *)
(* listener closed and the session out of the registry.                    *)
(***************************************************************************)
\* The write of NEW_CONN for a socket of session c has failed: the socket
\* has its id, was never announced and is closed.
C30_WriteFailed(c) ==
    \E e \in Ext :
        /\ ext[e].sess = c /\ ext[e].sid # 0
        /\ ~ext[e].ann /\ ext[e].srv = "closed"

C30_TornDown(c) ==
    /\ c \notin clients
    /\ ctl[c].srv = "closed"
    /\ PublicListener[c] # "open"
    /\ \A e \in Ext : ext[e].sess = c => ext[e].srv # "open"

\* When no task of the server has a step left, every session with a failed
\* write has been torn down.
C30_WriteErrorIsTerminal ==
    ~ENABLED ServerTaskStep => \A c \in Ctl : C30_WriteFailed(c) => C30_TornDown(c)

(***************************************************************************)
(* C31.  A frame decode failure on the control channel is fatal to its     *)
(* control session and to no other: on the server the session's frame      *)
(* reader stops and the session is torn down while the other sessions stay *)
(* as they are; on the client the control socket is closed and the         *)
(* reconnect loop dials again.                                             *)
(***************************************************************************)
\* DecodeFrame fails in the frame loop of session c in this step: the loop
\* leaves "run" without having found the context cancelled.
C31_SrvDecodeFails(c) ==
    /\ srvUp /\ srvUp'
    /\ srvRd[c] = "run" /\ srvRd'[c] \in {"done", "unreg"}

\* Session c is torn down by the step.
C31_TornDown(c) ==
    /\ srvRd'[c] = "done"
    /\ c \notin clients'
    /\ ctl'[c].srv = "closed"
    /\ PublicListener'[c] # "open"
    /\ ConnMap'[c] = EmptyMap
    /\ \A t \in Sids : ConnMap[c][t] # 0 => ext'[ConnMap[c][t]].srv = "closed"

\* Session d is as it was.
C31_Untouched(d) ==
    /\ ctl'[d] = ctl[d] /\ info'[d] = info[d] /\ srvRd'[d] = srvRd[d]
    /\ (d \in clients') = (d \in clients)
    /\ ConnMap'[d] = ConnMap[d] /\ PublicListener'[d] = PublicListener[d]
    /\ acc'[d] = acc[d] /\ s2c'[d] = s2c[d] /\ c2s'[d] = c2s[d]
    /\ \A e \in Ext : ext[e].sess = d => ext'[e] = ext[e]

C31_SrvStep ==
    \A c \in Ctl : C31_SrvDecodeFails(c) =>
        /\ C31_TornDown(c)
        /\ \A d \in Ctl \ {c} : C31_Untouched(d)

\* The client's main loop takes the reader's error in this step.
C31_CliDecodeFails == cli.pc = "loop" /\ cli'.pc # "loop"

C31_CliStep ==
    /\ C31_CliDecodeFails =>
          /\ ctl'[cli.controlConn].cli = "closed"
          /\ cli' = [pc |-> "sleep", controlConn |-> 0]
          /\ \A d \in Ctl \ {cli.controlConn} : ctl'[d] = ctl[d]
    \* and from the wait the only way on is the next dial
    /\ (cli.pc = "sleep" /\ cli' # cli) => cli'.pc = "dial"

C31_DecodeFailureIsFatal == [][C31_SrvStep /\ C31_CliStep]_vars

\* A remote end closes its control connection while the server is shutting
\* down.
RemoteClosesLate(c) ==
    /\ cli.pc = "off"
    /\ run.ctx = "done"
    /\ ctl[c].cli = "open"
    /\ ctl' = [ctl EXCEPT ![c].cli = "closed"]
    /\ UNCHANGED <<useTLS, srvUp, nStarts, nCtl, backlog, srvAcc, clients, nextClientID>>
    /\ UNCHANGED <<sessVars, chanVars, strmVars, cliVars>>
    /\ UNCHANGED <<codecVars, icfgVars, pqcVars, wireVars, runVars, idsVars, tlsVars>>

\* The server alone, as in SpecServer, with remote ends that also close
\* during the shutdown.
NextServerStop == NextServer \/ \E c \in Ctl : RemoteClosesLate(c)

SpecServerStop == InitServer /\ [][NextServerStop]_vars

(***************************************************************************)
(* C32.  Client INIT emission: on every control connection it establishes, *)
(* a client with a remote port writes exactly one INIT frame, with stream  *)
(* id 0, and it is the first frame the client writes on that connection,   *)
(* before any DATA or CLOSE; when the write of INIT fails the client       *)
(* closes the connection and does not enter the frame loop.                *)
(***************************************************************************)
\* The client writes frame f to connection c in this step.
C32_Writes(c) == Len(c2s'[c]) = Len(c2s[c]) + 1

C32_Written(c) == c2s'[c][Len(c2s'[c])]

C32_WriteStep ==
    \A c \in Ctl : C32_Writes(c) =>
        IF C32_Written(c).Type = FrameTypeINIT
        THEN /\ cli.controlConn = c /\ cli.pc = "init" /\ cli'.pc = "loop"
             /\ C32_Written(c).ConnID = 0
        \* DATA and CLOSE follow the INIT of their connection
        ELSE cli.controlConn = c /\ cli.pc = "loop"

\* sendInitConfig returns in this step; after an error the connection is
\* closed and the frame loop not entered.
C32_InitStep ==
    (cli.pc = "init" /\ cli'.pc # "init") =>
        \/ cli' = [cli EXCEPT !.pc = "loop"]
        \/ /\ c2s' = c2s
           /\ ctl'[cli.controlConn].cli = "closed"
           /\ cli' = [pc |-> "dial", controlConn |-> 0]

C32_InitFirst == [][C32_WriteStep /\ C32_InitStep]_vars

(***************************************************************************)
(* C33.  Client reconnect backoff: between any two consecutive attempts of *)
(* the client to establish the control transport there is one full backoff *)
(* wait, after a failed dial, after a frame-loop error and after a failure *)
(* to send INIT alike.                                                     *)
(***************************************************************************)
\* Run comes to connectToServer in this step, not for the first time.
C33_NextAttempt == cli.pc # "dial" /\ cli'.pc = "dial"

C33_AttemptStep == C33_NextAttempt => cli.pc = "sleep"

C33_BackoffBetweenDials == [][C33_AttemptStep]_vars

(***************************************************************************)
(* C34.  Strict construction of the TLS context: when the ML-KEM group     *)
(* list or the ML-DSA signature-algorithm list cannot be applied, the      *)
(* context is freed and the constructor returns an error and no listener   *)
(* or dialer; no listener or dialer is returned with a list not applied or *)
(* with a protocol version other than TLS 1.3.                             *)
(***************************************************************************)
\* The context admits TLS 1.3 only: both version calls took effect.
C34_Tls13Only == sslctx.vmin /\ sslctx.vmax

C34_ListsApplied ==
    sslctx.ret = "object" => sslctx.ctx = "live" /\ sslctx.groups /\ sslctx.sigalgs

C34_FreedOnError == sslctx.ret = "error" => sslctx.ctx # "live"

C34_StrictContext ==
    /\ C34_ListsApplied
    /\ C34_FreedOnError
    /\ sslctx.ret = "object" => C34_Tls13Only

\* ---------------------------------------------------------------------
\* C35: mutual exclusion on one TLS session.
\* ---------------------------------------------------------------------

\* Task k is inside a library call on the session: SSL_read, SSL_write, or
\* the SSL_shutdown and SSL_free of Close.
C35_InLibrary(k) == pconn.t[k].pc = "call"

\* C35 (first part): at any moment at most one task is inside a library call
\* on the session of a PQCConn, and that task is the holder of its mutex.
C35_OneCallAtATime ==
    \A j, k \in PTasks :
        C35_InLibrary(j) /\ C35_InLibrary(k) => j = k /\ pconn.mu = k

\* C35 (second part): a task that waits for the session mutex is
\* eventually served, whatever the other tasks keep calling.
C35_WaiterServed ==
    \A k \in PTasks : (pconn.t[k].pc = "lock") ~> (pconn.t[k].pc = "call")

\* A Write waits for the mutex while a Read is inside SSL_read.
C35_Witness ==
    \E j, k \in PTasks :
        /\ pconn.t[j].op = "Read" /\ C35_InLibrary(j)
        /\ pconn.t[k].op = "Write" /\ pconn.t[k].pc = "lock"

\* C35: on one PQCConn at most one library call is in progress at any moment,
\* made by the holder of its mutex, and every task that waits for the mutex
\* is eventually served.
C35_MutualExclusion == []C35_OneCallAtATime /\ C35_WaiterServed

\* ---------------------------------------------------------------------
\* C39: no library call on a session that Close has freed.
\* ---------------------------------------------------------------------

\* C39: no Read or Write passes to SSL_read or SSL_write the handle of a
\* session that Close has freed and set to nil; a call that meets the
\* closed session returns "SSL connection not established".
C39_NoCallAfterClose ==
    \A k \in PTasks :
        pconn.t[k].op \in {"Read", "Write"} /\ pconn.t[k].pc = "call"
            => pconn.t[k].h = "live"

\* ---------------------------------------------------------------------
\* C40: PQCConn.Write accepts the whole buffer or reports an error.
\* ---------------------------------------------------------------------

\* C40: a Write of a non-empty buffer that returns no error has
\* accepted every byte of the buffer.
C40_WriteAllOrError ==
    \A k \in PTasks :
        (/\ pconn.t[k].op = "Write" /\ pconn.t[k].pc = "idle"
         /\ pconn.t[k].len > 0 /\ pconn.t[k].err = "nil")
            => pconn.t[k].n = pconn.t[k].len

\* ---------------------------------------------------------------------
\* C36: the sessions of one client do not touch each other's streams.
\* ---------------------------------------------------------------------

\* The client has handled NEW_CONN{sid} on connection c by the end of the step.
C36_Told(c, sid) ==
    \E l \in Ext : loc'[l].dial # "none" /\ loc'[l].ctlc = c /\ loc'[l].sid = sid

\* A DATA or CLOSE frame the client writes on a control connection names a
\* stream whose NEW_CONN it received on that connection.
C36_WriteStep ==
    \A c \in Ctl :
        Len(c2s'[c]) = Len(c2s[c]) + 1 =>
            LET f == c2s'[c][Len(c2s'[c])] IN
            f.Type \in {FrameTypeDATA, FrameTypeCLOSE} => C36_Told(c, f.ConnID)

\* An entry of the stream table that holds the socket of a stream of the
\* current connection is removed or replaced only by that stream's own
\* reader or by the frame loop of that connection.
C36_EntryStep ==
    \A s \in Sids :
        (/\ connMap[s] # 0 /\ connMap'[s] # connMap[s]
         /\ cli.controlConn # 0 /\ loc[connMap[s]].ctlc = cli.controlConn)
            => \/ loc'[connMap[s]].fw # loc[connMap[s]].fw
               \/ s2c'[cli.controlConn] # s2c[cli.controlConn]

\* C36: on a control connection the client writes DATA{sid} or CLOSE{sid}
\* only for a stream announced on that connection, and no task or entry of
\* an earlier session removes or replaces an entry of the current one.
C36_SessionIsolation == [][C36_WriteStep /\ C36_EntryStep]_vars

\* ---------------------------------------------------------------------
\* C37: the public port is served again after a reconnect.
\* ---------------------------------------------------------------------

\* Session c is live, its INIT with a port has been handled, and no other
\* session is registered or holds a listener any more.
C37_OnlyLiveSession(c) ==
    /\ ~run.global /\ srvUp
    /\ c \in clients /\ ctl[c].srv = "open" /\ ctl[c].cli = "open"
    /\ info[c].RemotePort > 0
    /\ \A d \in Ctl \ {c} : d \notin clients /\ PublicListener[d] # "open"

\* The client has sent the INIT of connection c and the server has handled
\* every frame of it: the session waits for the next frame.
C37_InitHandled(c) ==
    /\ cli.controlConn = c /\ cli.pc = "loop"
    /\ c2s[c] = <<>> /\ srvRd[c] = "run"

\* C37: once the sessions before it are torn down, the live session whose
\* INIT asked for port p has a listener on p.
C37_ExposureRegained ==
    \A c \in Ctl :
        (C37_OnlyLiveSession(c) /\ C37_InitHandled(c))
            => PublicListener[c] = "open"
\* ---------------------------------------------------------------------
\* C38: an acceptor ends when its listener is closed.
\* ---------------------------------------------------------------------

\* The acceptor of session c sits in Accept on a listener that has been closed.
C38_ListenerGone(c) == srvUp /\ acc[c].pc = "accept" /\ PublicListener[c] = "closed"

\* The failing Accept makes the acceptor of session c return.
C38_Returns(c) == ENABLED (PubAcceptFails(c) /\ acc'[c].pc = "done")

\* The same for the acceptor of the global listener.
C38_GlobalReturns ==
    (srvUp /\ run.g.pc = "accept" /\ run.publicListener = "closed")
        => ENABLED (GlobAcceptFails /\ run'.g.pc = "done")

\* C38: an acceptor whose listener has been closed, by the teardown of its
\* session or by the shutdown, returns from its failing Accept, whether
\* or not the server context has been cancelled.
C38_AcceptorTerminates ==
    /\ \A c \in Ctl : C38_ListenerGone(c) => C38_Returns(c)
    /\ C38_GlobalReturns

=============================================================================
